---- MODULE Spec2Model ----
(***************************************************************************)
(* Rate limiters of religiosa1/rate-limiters: fixed window, sliding        *)
(* window, floating (approximated sliding) window and token bucket, each   *)
(* as a transaction ("NoLua") variant and a script (Lua) variant against a *)
(* key-value store, and the fixed and floating windows also in memory.     *)
(*                                                                         *)
(* One behaviour exercises one strategy (family).  In the sequential       *)
(* specification Spec every call is issued to all variants of the strategy *)
(* (each variant has its own store), the way the repository's test suites  *)
(* run the same calls against each variant.  In SpecConc several callers   *)
(* race on the script variant.                                             *)
(***************************************************************************)
EXTENDS Integers, Sequences, FiniteSets, TLC

VARIABLES
    family,       \* the strategy under test
    opts,         \* the limiter's options, fixed at construction
    storeSynced,  \* TRUE: the store's clock is the limiter's clock
    now,          \* Date.now() of the limiter's process
    kv,           \* kv[variant]: the store of the variant, key -> [val, exp]
    fixedMem,     \* FixedWindowInMemoryLimiter.window
    floatMem,     \* FloatingWindowInMemoryLimiter.{currentWindow, previousWindow}
    uuids,        \* uuids[variant]: crypto.randomUUID() values handed out so far
    hist,         \* hist[c]: instants of the registerHit calls made for client c
    res,          \* the last call and what each variant returned
    before,       \* the stores and windows as they were when the last call was made
    admitBy,      \* admitBy[v][c]: token bucket, the instant by which the refill
                  \* started before c's current run of limited hits reaches one token
    pc,           \* SpecConc: where each concurrent caller is
    call          \* SpecConc: the caller's client, captured instant and result

vars == <<family, opts, storeSynced, now, kv, fixedMem, floatMem, uuids, hist, res, before,
          admitBy, pc, call>>

(***************************************************************************)
(* Bounds of the model.                                                    *)
(***************************************************************************)
MaxTime == 3
MaxHits == 4
NProcs == 3

Families == {"fixed", "sliding", "floating", "token"}
Variants == {"tx", "script"}
Clients == {"", "1:"}
Procs == 1..NProcs
StartDates == {1}
Limits == {1, 2}
WindowSizes == {2}
RefillRates == {1}

NoExpiry == -1

Min(a, b) == IF a < b THEN a ELSE b
Max(a, b) == IF a > b THEN a ELSE b

(***************************************************************************)
(* The store.  A store is a function from its live keys to [val, exp];     *)
(* exp is the absolute expiry instant on the store's clock.                *)
(***************************************************************************)
\* The store server's clock.  The limiter reads its own clock (Date.now());
\* under fake timers the store's clock does not move with it.
StoreNow == IF storeSynced THEN now ELSE 0

Has(s, k) == k \in DOMAIN s

Put(s, k, rec) == [x \in DOMAIN s \cup {k} |-> IF x = k THEN rec ELSE s[x]]

Del(s, k) == [x \in DOMAIN s \ {k} |-> s[x]]

\* INCR: creates the key at 1 without expiry, keeps the expiry of a live key
Incr(s, k) ==
    IF Has(s, k) THEN Put(s, k, [val |-> s[k].val + 1, exp |-> s[k].exp])
                 ELSE Put(s, k, [val |-> 1, exp |-> NoExpiry])

\* PEXPIREAT: an instant that is not in the store's future deletes the key
PExpireAt(s, k, at) ==
    IF ~Has(s, k) THEN s
    ELSE IF at <= StoreNow THEN Del(s, k)
    ELSE Put(s, k, [val |-> s[k].val, exp |-> at])

\* SET key value PX ms
SetPX(s, k, v, ms) == Put(s, k, [val |-> v, exp |-> StoreNow + ms])

\* Keys whose expiry instant has come are removed by the store
Purge(s, storeTs) ==
    [x \in {k \in DOMAIN s : s[k].exp = NoExpiry \/ s[k].exp > storeTs} |-> s[x]]

EmptyStore == [x \in {} |-> 0]

(***************************************************************************)
(* Window arithmetic shared by the window strategies.                      *)
(***************************************************************************)
\* A window start computed with a quotient cut toward zero
calcCurrentWindowStartTsTruncating(nowTs) ==
    LET diff == nowTs - opts.startDate
        quotient == IF diff >= 0 THEN diff \div opts.windowSizeMs
                    ELSE -((-diff) \div opts.windowSizeMs)
    IN  quotient * opts.windowSizeMs + opts.startDate

\* FixedWindowLimiterNoLua.calcCurrentWindowStartTs
calcCurrentWindowStartTs(nowTs) ==
    ((nowTs - opts.startDate) \div opts.windowSizeMs) * opts.windowSizeMs + opts.startDate

\* RateLimiterWindow
RateLimiterWindow(startTs, duration) ==
    [startTs |-> startTs, duration |-> duration, endTs |-> startTs + duration,
     clientHitCounter |-> [x \in {} |-> 0]]

\* A window that still holds at its end instant
isExpiredAtEndInclusive(w, ts) == ~(w.startTs <= ts /\ ts <= w.endTs)

isExpiredAt(w, ts) == ~(w.startTs <= ts /\ ts < w.endTs)

MapGet(m, c) == IF c \in DOMAIN m THEN m[c] ELSE 0

MapSet(m, c, v) == [x \in DOMAIN m \cup {c} |-> IF x = c THEN v ELSE m[x]]

(***************************************************************************)
(* Fixed window.                                                           *)
(***************************************************************************)
FixedKeyPrefix == "fixed_window_limiter"

FixedGetClientKey(clientId, nowTs) ==
    FixedKeyPrefix \o ":" \o ToString(calcCurrentWindowStartTs(nowTs)) \o ":" \o clientId

\* FixedWindowLimiterNoLua.registerHit: MULTI { INCR, PEXPIREAT } EXEC
FixedTxRegisterHit(s, clientId, nowTs) ==
    LET key == FixedGetClientKey(clientId, nowTs)
        expireAtMs == calcCurrentWindowStartTs(nowTs) + opts.windowSizeMs
        s1 == Incr(s, key)
        count == s1[key].val
    IN  [st |-> PExpireAt(s1, key, expireAtMs), ret |-> opts.limit - count]

\* FixedWindowLimiterNoLua.getAvailableHits (inherited by the script variant)
FixedGetAvailableHits(s, clientId, nowTs) ==
    LET key == FixedGetClientKey(clientId, nowTs)
    IN  IF ~Has(s, key) THEN opts.limit ELSE opts.limit - s[key].val

\* A script that answers from the count it found, not the incremented one
FixedScriptRegisterHitStale(s, clientId, nowTs) ==
    LET key == FixedGetClientKey(clientId, nowTs)
        expireAtMs == calcCurrentWindowStartTs(nowTs) + opts.windowSizeMs
        s1 == Incr(s, key)
        count == s1[key].val
        s2 == IF count = 1 THEN PExpireAt(s1, key, expireAtMs) ELSE s1
        result == opts.limit - (count - 1)
    IN  [st |-> s2, ret |-> Max(result, -1)]

\* FixedWindowLimiter.registerHit: the script, then Math.max(result, -1)
FixedScriptRegisterHit(s, clientId, nowTs) ==
    LET key == FixedGetClientKey(clientId, nowTs)
        expireAtMs == calcCurrentWindowStartTs(nowTs) + opts.windowSizeMs
        s1 == Incr(s, key)
        count == s1[key].val
        s2 == IF count = 1 THEN PExpireAt(s1, key, expireAtMs) ELSE s1
        result == opts.limit - count
    IN  [st |-> s2, ret |-> Max(result, -1)]

\* A limiter that keeps its window whatever the instant
FixedMemKeepWindow(w, ts) == w

\* FixedWindowInMemoryLimiter.checkWindowExpiration
FixedMemCheckWindowExpiration(w, ts) ==
    IF isExpiredAt(w, ts)
    THEN RateLimiterWindow(calcCurrentWindowStartTs(ts), opts.windowSizeMs)
    ELSE w

\* FixedWindowInMemoryLimiter.registerHit
FixedMemRegisterHit(w, clientId, ts) ==
    LET w1 == FixedMemCheckWindowExpiration(w, ts)
        nHits == MapGet(w1.clientHitCounter, clientId) + 1
    IN  [st |-> [w1 EXCEPT !.clientHitCounter = MapSet(@, clientId, nHits)],
         ret |-> opts.limit - nHits]

\* FixedWindowInMemoryLimiter.getAvailableHits
FixedMemGetAvailableHits(w, clientId, ts) ==
    LET w1 == FixedMemCheckWindowExpiration(w, ts)
        nHits == MapGet(w1.clientHitCounter, clientId)
    IN  [st |-> w1, ret |-> opts.limit - nHits]

(***************************************************************************)
(* Sliding window.  The log of a client is a sorted set: a set of members  *)
(* [id, score]; a sorted set that becomes empty is removed by the store.   *)
(***************************************************************************)
SlidingKeyPrefix == "sliding_window_limiter"

SlidingGetClientKey(clientId) == SlidingKeyPrefix \o ":" \o clientId

\* Hit ids that repeat
repeatedUUID(n) == 1

\* crypto.randomUUID(): n is the number of ids handed out before this one
randomUUID(n) == n + 1

\* ZREMRANGEBYSCORE key -inf max (inclusive)
ZRemRangeByScore(s, k, max) ==
    IF ~Has(s, k) THEN s
    ELSE LET rest == {m \in s[k].val : m.score > max}
         IN  IF rest = {} THEN Del(s, k)
             ELSE Put(s, k, [val |-> rest, exp |-> s[k].exp])

\* ZADD key score member: a member already in the set only changes its score
ZAdd(s, k, id, score) ==
    LET old == IF Has(s, k) THEN s[k].val ELSE {}
        exp == IF Has(s, k) THEN s[k].exp ELSE NoExpiry
    IN  Put(s, k, [val |-> {m \in old : m.id # id} \cup {[id |-> id, score |-> score]},
                   exp |-> exp])

\* ZCOUNT key min max (both inclusive)
ZCount(s, k, min, max) ==
    IF ~Has(s, k) THEN 0
    ELSE Cardinality({m \in s[k].val : min <= m.score /\ m.score <= max})

\* SlidingWindowLimiterNoLua.removeExpiredHits
SlidingRemoveExpiredHits(s, clientId, nowTs) ==
    ZRemRangeByScore(s, SlidingGetClientKey(clientId), nowTs - opts.windowSizeMs)

\* A transaction that counts the log before adding the hit to it
SlidingTxRegisterHitCountFirst(s, clientId, nowTs, uuid) ==
    LET windowStartTs == nowTs - opts.windowSizeMs
        key == SlidingGetClientKey(clientId)
        s0 == SlidingRemoveExpiredHits(s, clientId, nowTs)
        s1 == ZRemRangeByScore(s0, key, windowStartTs)
        count == ZCount(s1, key, windowStartTs, nowTs)
        s2 == ZAdd(s1, key, uuid, nowTs)
        s3 == PExpireAt(s2, key, nowTs + opts.windowSizeMs)
    IN  [st |-> s3, ret |-> opts.limit - count]

\* A transaction that keeps the entry made exactly one window ago
SlidingTxRegisterHitTrimExclusive(s, clientId, nowTs, uuid) ==
    LET windowStartTs == nowTs - opts.windowSizeMs
        key == SlidingGetClientKey(clientId)
        s1 == ZRemRangeByScore(s, key, windowStartTs - 1)
        s2 == ZAdd(s1, key, uuid, nowTs)
        s3 == PExpireAt(s2, key, nowTs + opts.windowSizeMs)
        count == ZCount(s3, key, windowStartTs, nowTs)
    IN  [st |-> s3, ret |-> opts.limit - count]

\* SlidingWindowLimiterNoLua.registerHit: removeExpiredHits, then
\* MULTI { ZREMRANGEBYSCORE, ZADD, PEXPIREAT, ZCOUNT } EXEC
SlidingTxRegisterHit(s, clientId, nowTs, uuid) ==
    LET windowStartTs == nowTs - opts.windowSizeMs
        key == SlidingGetClientKey(clientId)
        s0 == SlidingRemoveExpiredHits(s, clientId, nowTs)
        s1 == ZRemRangeByScore(s0, key, windowStartTs)
        s2 == ZAdd(s1, key, uuid, nowTs)
        s3 == PExpireAt(s2, key, nowTs + opts.windowSizeMs)
        count == ZCount(s3, key, windowStartTs, nowTs)
    IN  [st |-> s3, ret |-> opts.limit - count]

\* SlidingWindowLimiterNoLua.getAvailableHitsAtTime (inherited by the script variant)
SlidingGetAvailableHits(s, clientId, nowTs) ==
    LET key == SlidingGetClientKey(clientId)
        windowStartTs == nowTs - opts.windowSizeMs
        count == ZCount(s, key, windowStartTs, nowTs)
    IN  Max(opts.limit - count, 0)

\* A script that does not trim the log before counting
SlidingScriptRegisterHitNoTrim(s, clientId, nowTs, uuid) ==
    LET key == SlidingGetClientKey(clientId)
        window_start_ts == nowTs - opts.windowSizeMs
        s2 == ZAdd(s, key, uuid, nowTs)
        s3 == PExpireAt(s2, key, nowTs + opts.windowSizeMs)
        count == ZCount(s3, key, window_start_ts, nowTs)
    IN  [st |-> s3, ret |-> opts.limit - count]

\* A script that logs a hit only when it is within the limit
SlidingScriptRegisterHitAdmittedOnly(s, clientId, nowTs, uuid) ==
    LET key == SlidingGetClientKey(clientId)
        window_start_ts == nowTs - opts.windowSizeMs
        s1 == ZRemRangeByScore(s, key, window_start_ts)
        found == ZCount(s1, key, window_start_ts, nowTs)
        s2 == IF found < opts.limit THEN ZAdd(s1, key, uuid, nowTs) ELSE s1
        s3 == PExpireAt(s2, key, nowTs + opts.windowSizeMs)
    IN  [st |-> s3, ret |-> opts.limit - (found + 1)]

\* SlidingWindowLimiter.registerHit: the script
SlidingScriptRegisterHit(s, clientId, nowTs, uuid) ==
    LET key == SlidingGetClientKey(clientId)
        window_start_ts == nowTs - opts.windowSizeMs
        s1 == ZRemRangeByScore(s, key, window_start_ts)
        s2 == ZAdd(s1, key, uuid, nowTs)
        s3 == PExpireAt(s2, key, nowTs + opts.windowSizeMs)
        count == ZCount(s3, key, window_start_ts, nowTs)
    IN  [st |-> s3, ret |-> opts.limit - count]

(***************************************************************************)
(* Floating window.  Fractions are exact rationals [n, d] with d > 0.      *)
(***************************************************************************)
Rat(n, d) == [n |-> n, d |-> d]

\* Math.floor
Floor(r) == r.n \div r.d

\* The store's conversion of a Lua number returned by a script to an integer
\* reply: the fraction is dropped (rounding toward zero)
LuaNumberToReply(r) == IF r.n >= 0 THEN r.n \div r.d ELSE -((-r.n) \div r.d)

FloatingKeyPrefix == "floating_window_limiter"

\* Window keys that leave the client out
FloatingGetSharedWindowKey(clientId, winowStartTs) ==
    FloatingKeyPrefix \o ":" \o ToString(winowStartTs) \o ":"

FloatingGetClientWindowKey(clientId, winowStartTs) ==
    FloatingKeyPrefix \o ":" \o ToString(winowStartTs) \o ":" \o clientId

\* A weight taken one instant further into the window
calcPrevWindowWeightLate(nowTs) ==
    LET currentWindowStart == calcCurrentWindowStartTs(nowTs)
        slidingWindowStart == nowTs + 1 - opts.windowSizeMs
        prevWindowDiff == currentWindowStart - slidingWindowStart
    IN  Rat(prevWindowDiff, opts.windowSizeMs)

\* FloatingWindowLimiterNoLua.calcPrevWindowWeight
calcPrevWindowWeight(nowTs) ==
    LET currentWindowStart == calcCurrentWindowStartTs(nowTs)
        slidingWindowStart == nowTs - opts.windowSizeMs
        prevWindowDiff == currentWindowStart - slidingWindowStart
    IN  Rat(prevWindowDiff, opts.windowSizeMs)

\* limit - (prevCount * weight + curCount)
FloatingRemaining(prevCount, curCount, weight) ==
    Rat(opts.limit * weight.d - (prevCount * weight.n + curCount * weight.d), weight.d)

StoredCount(s, k) == IF Has(s, k) THEN s[k].val ELSE 0

\* A transaction that reads the current counter before incrementing it
FloatingTxRegisterHitBeforeIncr(s, clientId, nowTs) ==
    LET currentWindowStart == calcCurrentWindowStartTs(nowTs)
        prevKey == FloatingGetClientWindowKey(clientId, currentWindowStart - opts.windowSizeMs)
        curKey == FloatingGetClientWindowKey(clientId, currentWindowStart)
        prevCount == StoredCount(s, prevKey)
        curCount == StoredCount(s, curKey)
        s1 == Incr(s, curKey)
        s2 == PExpireAt(s1, curKey, currentWindowStart + opts.windowSizeMs)
        weight == calcPrevWindowWeight(nowTs)
    IN  [st |-> s2, ret |-> Floor(FloatingRemaining(prevCount, curCount, weight))]

\* FloatingWindowLimiterNoLua.registerHit: MULTI { GET, INCR, PEXPIREAT } EXEC
FloatingTxRegisterHit(s, clientId, nowTs) ==
    LET currentWindowStart == calcCurrentWindowStartTs(nowTs)
        prevKey == FloatingGetClientWindowKey(clientId, currentWindowStart - opts.windowSizeMs)
        curKey == FloatingGetClientWindowKey(clientId, currentWindowStart)
        prevCount == StoredCount(s, prevKey)
        s1 == Incr(s, curKey)
        curCount == s1[curKey].val
        s2 == PExpireAt(s1, curKey, currentWindowStart + opts.windowSizeMs)
        weight == calcPrevWindowWeight(nowTs)
    IN  [st |-> s2, ret |-> Floor(FloatingRemaining(prevCount, curCount, weight))]

\* FloatingWindowLimiterNoLua.getAvailableHits (inherited by the script variant)
FloatingGetAvailableHits(s, clientId, nowTs) ==
    LET currentWindowStart == calcCurrentWindowStartTs(nowTs)
        prevKey == FloatingGetClientWindowKey(clientId, currentWindowStart - opts.windowSizeMs)
        curKey == FloatingGetClientWindowKey(clientId, currentWindowStart)
        prevCount == StoredCount(s, prevKey)
        curCount == StoredCount(s, curKey)
        weight == calcPrevWindowWeight(nowTs)
    IN  FloatingRemaining(prevCount, curCount, weight)

\* A script that keeps the counter for the window after its own as well
FloatingScriptRegisterHitExpireLate(s, clientId, nowTs) ==
    LET currentWindowStart == calcCurrentWindowStartTs(nowTs)
        curKey == FloatingGetClientWindowKey(clientId, currentWindowStart)
        prevKey == FloatingGetClientWindowKey(clientId, currentWindowStart - opts.windowSizeMs)
        expireAtMs == currentWindowStart + 2 * opts.windowSizeMs
        weight == calcPrevWindowWeight(nowTs)
        count_prev == StoredCount(s, prevKey)
        s1 == Incr(s, curKey)
        count_current == s1[curKey].val
        s2 == IF count_current = 1 THEN PExpireAt(s1, curKey, expireAtMs) ELSE s1
    IN  [st |-> s2, ret |-> 0]

\* FloatingWindowLimiter.registerHit: the script returns limit - approx as a
\* Lua number, the client applies Math.floor to the integer reply
FloatingScriptRegisterHit(s, clientId, nowTs) ==
    LET currentWindowStart == calcCurrentWindowStartTs(nowTs)
        curKey == FloatingGetClientWindowKey(clientId, currentWindowStart)
        prevKey == FloatingGetClientWindowKey(clientId, currentWindowStart - opts.windowSizeMs)
        expireAtMs == currentWindowStart + opts.windowSizeMs
        weight == calcPrevWindowWeight(nowTs)
        count_prev == StoredCount(s, prevKey)
        s1 == Incr(s, curKey)
        count_current == s1[curKey].val
        s2 == IF count_current = 1 THEN PExpireAt(s1, curKey, expireAtMs) ELSE s1
        result == LuaNumberToReply(FloatingRemaining(count_prev, count_current, weight))
    IN  [st |-> s2, ret |-> Floor(Rat(result, 1))]

\* A rotation that always keeps the old current window as the previous one
FloatingMemCheckWindowExpirationKeep(m, ts) ==
    IF isExpiredAt(m.currentWindow, ts)
    THEN [previousWindow |-> m.currentWindow,
          currentWindow |-> RateLimiterWindow(calcCurrentWindowStartTs(ts), opts.windowSizeMs)]
    ELSE m

\* FloatingWindowInMemoryLimiter.checkWindowExpiration
FloatingMemCheckWindowExpiration(m, ts) ==
    IF isExpiredAt(m.currentWindow, ts)
    THEN LET oldWindowTs == ts - m.previousWindow.duration
             isCurrentWindowExpiredAsPrevious == isExpiredAt(m.currentWindow, oldWindowTs)
         IN  [previousWindow |->
                  IF isCurrentWindowExpiredAsPrevious
                  THEN RateLimiterWindow(calcCurrentWindowStartTs(oldWindowTs), opts.windowSizeMs)
                  ELSE m.currentWindow,
              currentWindow |->
                  RateLimiterWindow(calcCurrentWindowStartTs(ts), opts.windowSizeMs)]
    ELSE m

\* FloatingWindowInMemoryLimiter.calcApproximation, as limit - approx
FloatingMemRemaining(prevCount, curCount, ts) ==
    LET currentWindowStart == calcCurrentWindowStartTs(ts)
        slidingWindowStart == ts - opts.windowSizeMs
        prevWindowDiff == currentWindowStart - slidingWindowStart
        weight == Rat(prevWindowDiff, opts.windowSizeMs)
    IN  Rat(opts.limit * weight.d - (prevCount * weight.n + curCount * weight.d), weight.d)

\* FloatingWindowInMemoryLimiter.registerHit
FloatingMemRegisterHit(m, clientId, ts) ==
    LET m1 == FloatingMemCheckWindowExpiration(m, ts)
        prevCount == MapGet(m1.previousWindow.clientHitCounter, clientId)
        curCount == MapGet(m1.currentWindow.clientHitCounter, clientId) + 1
    IN  [st |-> [m1 EXCEPT !.currentWindow.clientHitCounter = MapSet(@, clientId, curCount)],
         ret |-> Floor(FloatingMemRemaining(prevCount, curCount, ts))]

\* A read that counts itself as a hit
FloatingMemGetAvailableHitsCounting(m, clientId, ts) ==
    LET m1 == FloatingMemCheckWindowExpiration(m, ts)
        prevCount == MapGet(m1.previousWindow.clientHitCounter, clientId)
        curCount == MapGet(m1.currentWindow.clientHitCounter, clientId)
    IN  [st |-> [m1 EXCEPT !.currentWindow.clientHitCounter = MapSet(@, clientId, curCount + 1)],
         ret |-> Floor(FloatingMemRemaining(prevCount, curCount, ts))]

\* FloatingWindowInMemoryLimiter.getAvailableHits
FloatingMemGetAvailableHits(m, clientId, ts) ==
    LET m1 == FloatingMemCheckWindowExpiration(m, ts)
        prevCount == MapGet(m1.previousWindow.clientHitCounter, clientId)
        curCount == MapGet(m1.currentWindow.clientHitCounter, clientId)
    IN  [st |-> m1, ret |-> Floor(FloatingMemRemaining(prevCount, curCount, ts))]

(***************************************************************************)
(* Token bucket.  Token counts are exact rationals in lowest terms.        *)
(***************************************************************************)
RECURSIVE GCD(_, _)
GCD(a, b) == IF b = 0 THEN a ELSE GCD(b, a % b)

Abs(x) == IF x < 0 THEN -x ELSE x

Reduce(r) ==
    LET g == GCD(Abs(r.n), r.d)
    IN  Rat(r.n \div g, r.d \div g)

RatAdd(a, b) == Reduce(Rat(a.n * b.d + b.n * a.d, a.d * b.d))
RatSub(a, b) == Reduce(Rat(a.n * b.d - b.n * a.d, a.d * b.d))
RatLess(a, b) == a.n * b.d < b.n * a.d
RatMin(a, b) == IF RatLess(b, a) THEN b ELSE a
RatMax(a, b) == IF RatLess(a, b) THEN b ELSE a
RatInt(i) == Rat(i, 1)

\* Math.ceil
Ceil(r) == -((-r.n) \div r.d)

\* Significant decimal digits kept by Lua's tostring (LUAI_NUMFMT "%.14g");
\* the model keeps fewer so that the scaled numerators stay machine integers
LuaDigits == 3

RECURSIVE Pow10(_)
Pow10(e) == IF e = 0 THEN 1 ELSE 10 * Pow10(e - 1)

\* r * 10, cancelling a factor 10 of the denominator where there is one
Times10(r) == IF r.d % 10 = 0 THEN Rat(r.n, r.d \div 10) ELSE Rat(r.n * 10, r.d)

\* r * 10^e
RECURSIVE TimesPow10(_, _)
TimesPow10(r, e) == IF e = 0 THEN r ELSE TimesPow10(Times10(r), e - 1)

\* The least e >= 0 with |r| * 10^e >= 10^(LuaDigits - 1)
RECURSIVE SigExp(_, _)
SigExp(r, e) ==
    IF Abs(TimesPow10(r, e).n) \div TimesPow10(r, e).d >= Pow10(LuaDigits - 1)
    THEN e ELSE SigExp(r, e + 1)

\* Lua tostring(number) read back as a number: the decimal numeral with
\* LuaDigits significant digits nearest to r
LuaToString(r) ==
    IF r.n = 0 THEN Rat(0, 1)
    ELSE LET e == SigExp(r, 0)
             s == TimesPow10(r, e)
             scaled == (2 * Abs(s.n) + s.d) \div (2 * s.d)
             sign == IF r.n < 0 THEN -1 ELSE 1
         IN  Reduce(Rat(sign * scaled, Pow10(e)))

\* JavaScript Number.prototype.toString read back with Number()/unary plus:
\* the shortest numeral that reads back as the same number
JsToString(r) == Reduce(r)

TokenKeyPrefix == "token_bucket_limiter"

getNTokensKey(clientId) == TokenKeyPrefix \o ":nTokens:" \o clientId

getTsKey(clientId) == TokenKeyPrefix \o ":updatedAt:" \o clientId

\* The time one refill step takes, whatever the bucket's size
timeForOneRefillMs ==
    Reduce(Rat(opts.refillIntervalMs, opts.refillRate))

\* TokenBucketLimiterNoLua.timeForCompleteRefillMs
timeForCompleteRefillMs ==
    Reduce(Rat(opts.limit * opts.refillIntervalMs, opts.refillRate))

\* TokenBucketLimiterNoLua.getRefillAmountInMs
getRefillAmountInMs(n) == Reduce(Rat(n.n * opts.refillRate, n.d * opts.refillIntervalMs))

\* TokenBucketLimiterNoLua.calculateRefilledTokenAmountAtTime
calculateRefilledTokenAmountAtTime(s, clientId, ts) ==
    IF ~Has(s, getTsKey(clientId)) THEN RatInt(0)
    ELSE LET lastTs == s[getTsKey(clientId)].val
             elapsedMs == RatSub(RatInt(ts), lastTs)
         IN  RatMin(getRefillAmountInMs(elapsedMs), RatInt(opts.limit))

\* An update that lets the timestamp key live one instant longer
updateBucketTwoExpiries(s, clientId, nTokens, nowTs) ==
    LET expiry == Ceil(timeForCompleteRefillMs)
        clampedNToken == RatMax(RatMin(nTokens, RatInt(opts.limit)), RatInt(0))
        s1 == SetPX(s, getNTokensKey(clientId), JsToString(clampedNToken), expiry)
    IN  SetPX(s1, getTsKey(clientId), JsToString(RatInt(nowTs)), expiry + 1)

\* TokenBucketLimiterNoLua.updateBucket: MULTI { SET PX, SET PX } EXEC
updateBucket(s, clientId, nTokens, nowTs) ==
    LET expiry == Ceil(timeForCompleteRefillMs)
        clampedNToken == RatMax(RatMin(nTokens, RatInt(opts.limit)), RatInt(0))
        s1 == SetPX(s, getNTokensKey(clientId), JsToString(clampedNToken), expiry)
    IN  SetPX(s1, getTsKey(clientId), JsToString(RatInt(nowTs)), expiry)

\* A registerHit that reports the tokens before taking one
TokenTxRegisterHitBeforeTake(s, clientId, nowTs) ==
    LET currentLimit == IF Has(s, getNTokensKey(clientId))
                        THEN s[getNTokensKey(clientId)].val ELSE RatInt(opts.limit)
        tokensCount == RatAdd(currentLimit, calculateRefilledTokenAmountAtTime(s, clientId, nowTs))
        valuetoUpdate == IF ~RatLess(tokensCount, RatInt(1))
                         THEN RatSub(tokensCount, RatInt(1)) ELSE tokensCount
    IN  [st |-> updateBucket(s, clientId, valuetoUpdate, nowTs),
         ret |-> Floor(tokensCount)]

\* TokenBucketLimiterNoLua.registerHit, its round trips one after the other
TokenTxRegisterHit(s, clientId, nowTs) ==
    LET currentLimit == IF Has(s, getNTokensKey(clientId))
                        THEN s[getNTokensKey(clientId)].val ELSE RatInt(opts.limit)
        tokensCount == RatAdd(currentLimit, calculateRefilledTokenAmountAtTime(s, clientId, nowTs))
        valuetoUpdate == IF ~RatLess(tokensCount, RatInt(1))
                         THEN RatSub(tokensCount, RatInt(1)) ELSE tokensCount
    IN  [st |-> updateBucket(s, clientId, valuetoUpdate, nowTs),
         ret |-> Floor(RatSub(tokensCount, RatInt(1)))]

\* TokenBucketLimiterNoLua.getAvailableHits (inherited by the script variant)
TokenGetAvailableHits(s, clientId, nowTs) ==
    LET tokensLeft == IF Has(s, getNTokensKey(clientId))
                      THEN s[getNTokensKey(clientId)].val ELSE RatInt(opts.limit)
        refil == calculateRefilledTokenAmountAtTime(s, clientId, nowTs)
    IN  RatAdd(tokensLeft, refil)

\* TokenBucketLimiter.registerHit: the script returns tostring(tokens_count - 1.0),
\* the client applies Number() and Math.floor
TokenScriptRegisterHit(s, clientId, nowTs) ==
    LET tokens_key == getNTokensKey(clientId)
        ts_key == getTsKey(clientId)
        limit == RatInt(opts.limit)
        expire_ms == Ceil(timeForCompleteRefillMs)
        now_ms == RatInt(nowTs)
        absent == ~Has(s, tokens_key) \/ ~Has(s, ts_key)
        elapsed_ms == IF absent THEN RatInt(0) ELSE RatSub(now_ms, s[ts_key].val)
        refill_amount == Reduce(Rat(elapsed_ms.n * opts.refillRate,
                                    elapsed_ms.d * opts.refillIntervalMs))
        tokens_count ==
            IF absent THEN limit
            ELSE IF RatLess(RatInt(0), elapsed_ms)
                 THEN RatMin(limit, RatAdd(s[tokens_key].val, refill_amount))
                 ELSE s[tokens_key].val
        update_value == IF ~RatLess(tokens_count, RatInt(1))
                        THEN RatSub(tokens_count, RatInt(1)) ELSE tokens_count
        s1 == SetPX(s, tokens_key, LuaToString(RatMax(update_value, RatInt(0))), expire_ms)
        s2 == SetPX(s1, ts_key, LuaToString(now_ms), expire_ms)
        result == LuaToString(RatSub(tokens_count, RatInt(1)))
    IN  [st |-> s2, ret |-> Floor(result)]

(***************************************************************************)
(* Construction.                                                           *)
(***************************************************************************)
\* The options a limiter can be constructed with; the window size doubles as
\* the token bucket's refill interval
OptsSet ==
    [limit : Limits, windowSizeMs : WindowSizes, startDate : StartDates,
     refillIntervalMs : WindowSizes, refillRate : RefillRates]

\* The token bucket on its own is also run with a third token and a faster
\* refill, so that a refill can overfill a bucket whose keys are still live
TokenLimits == {1, 2, 3}
TokenRefillIntervals == {1, 2, 3}

TokenOptsSet ==
    [limit : TokenLimits, windowSizeMs : WindowSizes, startDate : StartDates,
     refillIntervalMs : TokenRefillIntervals, refillRate : RefillRates]

NoCall == [op |-> "none"]

NoDeadline == [n |-> 0, d |-> 0]

\* The stores and in-memory windows of this state
Snapshot == [kv |-> kv, fixedMem |-> fixedMem, floatMem |-> floatMem, uuids |-> uuids]

\* The sequential caller stops after HitCap registerHit calls; the sliding
\* window's refill takes one call more to show than the other strategies
HitCap == IF family = "sliding" THEN MaxHits + 1 ELSE MaxHits

\* registerHit calls made so far, all clients together
TotalHits == Len(hist[""]) + Len(hist["1:"])

\* Limiters constructed with options from S, on empty stores
InitWith(S) ==
    /\ family \in Families
    /\ opts \in S
    /\ storeSynced \in BOOLEAN
    /\ now = 0
    /\ kv = [v \in Variants |-> EmptyStore]
    /\ fixedMem = RateLimiterWindow(calcCurrentWindowStartTs(now), opts.windowSizeMs)
    /\ floatMem = [currentWindow |-> RateLimiterWindow(calcCurrentWindowStartTs(now), opts.windowSizeMs),
                   previousWindow |-> RateLimiterWindow(calcCurrentWindowStartTs(now) - opts.windowSizeMs,
                                                        opts.windowSizeMs)]
    /\ uuids = [v \in Variants |-> 0]
    /\ hist = [c \in Clients |-> <<>>]
    /\ res = NoCall
    /\ before = NoCall
    /\ admitBy = [v \in Variants |-> [c \in Clients |-> NoDeadline]]
    /\ pc = [p \in Procs |-> "idle"]
    /\ call = [p \in Procs |-> NoCall]

Init == InitWith({o \in OptsSet : o.refillIntervalMs = o.windowSizeMs})

(***************************************************************************)
(* Sequential calls: one caller, each call runs to completion.             *)
(***************************************************************************)
\* The clock of the limiter's process moves on; the store drops expired keys
Tick ==
    /\ now < MaxTime
    /\ now' = now + 1
    /\ UNCHANGED <<admitBy, family, opts, storeSynced, fixedMem, floatMem, uuids, hist, pc, call>>
    /\ kv' = [v \in Variants |-> Purge(kv[v], StoreNow')]
    /\ res' = NoCall
    /\ before' = NoCall

FixedRegisterHit(c) ==
    /\ family = "fixed"
    /\ before' = Snapshot
    /\ TotalHits < HitCap
    /\ LET t == FixedTxRegisterHit(kv["tx"], c, now)
           s == FixedScriptRegisterHit(kv["script"], c, now)
           m == FixedMemRegisterHit(fixedMem, c, now)
       IN  /\ kv' = [kv EXCEPT !["tx"] = t.st, !["script"] = s.st]
           /\ fixedMem' = m.st
           /\ res' = [op |-> "registerHit", c |-> c, tx |-> t.ret, script |-> s.ret, mem |-> m.ret]
    /\ hist' = [hist EXCEPT ![c] = Append(@, now)]
    /\ UNCHANGED <<admitBy, family, opts, storeSynced, now, floatMem, uuids, pc, call>>

FixedGetHits(c) ==
    /\ family = "fixed"
    /\ before' = Snapshot
    /\ LET m == FixedMemGetAvailableHits(fixedMem, c, now)
       IN  /\ fixedMem' = m.st
           /\ res' = [op |-> "getAvailableHits", c |-> c,
                      tx |-> FixedGetAvailableHits(kv["tx"], c, now),
                      script |-> FixedGetAvailableHits(kv["script"], c, now),
                      mem |-> m.ret]
    /\ UNCHANGED <<admitBy, family, opts, storeSynced, now, kv, floatMem, uuids, hist, pc, call>>

SlidingRegisterHit(c) ==
    /\ family = "sliding"
    /\ before' = Snapshot
    /\ TotalHits < HitCap
    /\ LET t == SlidingTxRegisterHit(kv["tx"], c, now, randomUUID(uuids["tx"]))
           s == SlidingScriptRegisterHit(kv["script"], c, now, randomUUID(uuids["script"]))
       IN  /\ kv' = [kv EXCEPT !["tx"] = t.st, !["script"] = s.st]
           /\ res' = [op |-> "registerHit", c |-> c, tx |-> t.ret, script |-> s.ret]
    /\ uuids' = [v \in Variants |-> uuids[v] + 1]
    /\ hist' = [hist EXCEPT ![c] = Append(@, now)]
    /\ UNCHANGED <<admitBy, family, opts, storeSynced, now, fixedMem, floatMem, pc, call>>

SlidingGetHits(c) ==
    /\ family = "sliding"
    /\ before' = Snapshot
    /\ res' = [op |-> "getAvailableHits", c |-> c,
               tx |-> SlidingGetAvailableHits(kv["tx"], c, now),
               script |-> SlidingGetAvailableHits(kv["script"], c, now)]
    /\ UNCHANGED <<admitBy, family, opts, storeSynced, now, kv, fixedMem, floatMem, uuids, hist, pc, call>>

FloatingRegisterHit(c) ==
    /\ family = "floating"
    /\ before' = Snapshot
    /\ TotalHits < HitCap
    /\ LET t == FloatingTxRegisterHit(kv["tx"], c, now)
           s == FloatingScriptRegisterHit(kv["script"], c, now)
           m == FloatingMemRegisterHit(floatMem, c, now)
       IN  /\ kv' = [kv EXCEPT !["tx"] = t.st, !["script"] = s.st]
           /\ floatMem' = m.st
           /\ res' = [op |-> "registerHit", c |-> c, tx |-> t.ret, script |-> s.ret, mem |-> m.ret]
    /\ hist' = [hist EXCEPT ![c] = Append(@, now)]
    /\ UNCHANGED <<admitBy, family, opts, storeSynced, now, fixedMem, uuids, pc, call>>

FloatingGetHits(c) ==
    /\ family = "floating"
    /\ before' = Snapshot
    /\ LET m == FloatingMemGetAvailableHits(floatMem, c, now)
       IN  /\ floatMem' = m.st
           /\ res' = [op |-> "getAvailableHits", c |-> c,
                      tx |-> FloatingGetAvailableHits(kv["tx"], c, now),
                      script |-> FloatingGetAvailableHits(kv["script"], c, now),
                      mem |-> Rat(m.ret, 1)]
    /\ UNCHANGED <<admitBy, family, opts, storeSynced, now, kv, fixedMem, uuids, hist, pc, call>>

\* The refill algorithm's available amount for client c at this instant, from
\* the (tokens, lastUpdateTs) pair held in store s: min(limit, tokens +
\* (now - lastUpdateTs) / refillIntervalMs * refillRate); limit when absent
TokenAvailable(s, c) ==
    IF ~Has(s, getNTokensKey(c)) \/ ~Has(s, getTsKey(c)) THEN RatInt(opts.limit)
    ELSE LET elapsed == RatSub(RatInt(now), s[getTsKey(c)].val)
             refillAmount == Reduce(Rat(elapsed.n * opts.refillRate,
                                        elapsed.d * opts.refillIntervalMs))
         IN  RatMin(RatInt(opts.limit), RatAdd(s[getNTokensKey(c)].val, refillAmount))

\* The instant at which an available amount a < 1 at this instant has
\* refilled to one token: now + (1 - a) * refillIntervalMs / refillRate
RefilledAt(a) ==
    LET short == RatSub(RatInt(1), a)
    IN  RatAdd(RatInt(now), Reduce(Rat(short.n * opts.refillIntervalMs, short.d * opts.refillRate)))

\* The deadline after a registerHit of c that found store s and returned r:
\* none after an admitted hit; after a limited hit the earliest of the run
NextAdmitBy(old, s, c, r) ==
    IF r >= 0 THEN NoDeadline
    ELSE LET d == RefilledAt(TokenAvailable(s, c))
         IN  IF old = NoDeadline THEN d ELSE RatMin(old, d)

TokenRegisterHit(c) ==
    /\ family = "token"
    /\ before' = Snapshot
    /\ TotalHits < HitCap
    /\ LET t == TokenTxRegisterHit(kv["tx"], c, now)
           s == TokenScriptRegisterHit(kv["script"], c, now)
       IN  /\ kv' = [kv EXCEPT !["tx"] = t.st, !["script"] = s.st]
           /\ res' = [op |-> "registerHit", c |-> c, tx |-> t.ret, script |-> s.ret]
           /\ admitBy' = [admitBy EXCEPT !["tx"][c] = NextAdmitBy(@, kv["tx"], c, t.ret),
                                         !["script"][c] = NextAdmitBy(@, kv["script"], c, s.ret)]
    /\ hist' = [hist EXCEPT ![c] = Append(@, now)]
    /\ UNCHANGED <<family, opts, storeSynced, now, fixedMem, floatMem, uuids, pc, call>>

TokenGetHits(c) ==
    /\ family = "token"
    /\ before' = Snapshot
    /\ res' = [op |-> "getAvailableHits", c |-> c,
               tx |-> TokenGetAvailableHits(kv["tx"], c, now),
               script |-> TokenGetAvailableHits(kv["script"], c, now)]
    /\ UNCHANGED <<admitBy, family, opts, storeSynced, now, kv, fixedMem, floatMem, uuids, hist, pc, call>>

(***************************************************************************)
(* Concurrent callers of the script variant.  A caller reads the clock and *)
(* builds the script's arguments; the store then runs the script as one    *)
(* step and the caller turns the reply into its result.                    *)
(***************************************************************************)
\* Callers are interchangeable: they enter in the order of their numbers
Invoke(p, c) ==
    /\ pc[p] = "idle"
    /\ \A q \in Procs : q < p => pc[q] # "idle"
    /\ pc' = [pc EXCEPT ![p] = "invoked"]
    /\ call' = [call EXCEPT ![p] =
                   [op |-> "registerHit", c |-> c, nowTs |-> now,
                    hitId |-> IF family = "sliding" THEN randomUUID(uuids["script"]) ELSE 0]]
    /\ uuids' = IF family = "sliding" THEN [uuids EXCEPT !["script"] = @ + 1] ELSE uuids
    /\ UNCHANGED <<admitBy, family, opts, storeSynced, now, kv, fixedMem, floatMem, hist, res, before>>

\* The state change shared by the four script runs
ScriptDone(p, r) ==
    /\ kv' = [kv EXCEPT !["script"] = r.st]
    /\ call' = [call EXCEPT ![p] = [op |-> @.op, c |-> @.c, nowTs |-> @.nowTs,
                                    hitId |-> @.hitId, ret |-> r.ret]]
    /\ pc' = [pc EXCEPT ![p] = "done"]
    /\ hist' = [hist EXCEPT ![call[p].c] = Append(@, call[p].nowTs)]
    /\ UNCHANGED <<admitBy, family, opts, storeSynced, now, fixedMem, floatMem, uuids, res, before>>

FixedScriptRun(p) ==
    /\ family = "fixed"
    /\ pc[p] = "invoked"
    /\ ScriptDone(p, FixedScriptRegisterHit(kv["script"], call[p].c, call[p].nowTs))

SlidingScriptRun(p) ==
    /\ family = "sliding"
    /\ pc[p] = "invoked"
    /\ ScriptDone(p, SlidingScriptRegisterHit(kv["script"], call[p].c, call[p].nowTs, call[p].hitId))

FloatingScriptRun(p) ==
    /\ family = "floating"
    /\ pc[p] = "invoked"
    /\ ScriptDone(p, FloatingScriptRegisterHit(kv["script"], call[p].c, call[p].nowTs))

TokenScriptRun(p) ==
    /\ family = "token"
    /\ pc[p] = "invoked"
    /\ ScriptDone(p, TokenScriptRegisterHit(kv["script"], call[p].c, call[p].nowTs))

NextConc ==
    \/ Tick
    \/ \E p \in Procs, c \in Clients : Invoke(p, c)
    \/ \E p \in Procs : FixedScriptRun(p)
    \/ \E p \in Procs : SlidingScriptRun(p)
    \/ \E p \in Procs : FloatingScriptRun(p)
    \/ \E p \in Procs : TokenScriptRun(p)

SpecConc == Init /\ [][NextConc]_vars

Next ==
    \/ Tick
    \/ \E c \in Clients : FixedRegisterHit(c)
    \/ \E c \in Clients : FixedGetHits(c)
    \/ \E c \in Clients : SlidingRegisterHit(c)
    \/ \E c \in Clients : SlidingGetHits(c)
    \/ \E c \in Clients : FloatingRegisterHit(c)
    \/ \E c \in Clients : FloatingGetHits(c)
    \/ \E c \in Clients : TokenRegisterHit(c)
    \/ \E c \in Clients : TokenGetHits(c)

Spec == Init /\ [][Next]_vars

\* One strategy at a time
InitFixed == Init /\ family = "fixed"

NextFixed ==
    \/ Tick
    \/ \E c \in Clients : FixedRegisterHit(c)
    \/ \E c \in Clients : FixedGetHits(c)

SpecFixed == InitFixed /\ [][NextFixed]_vars

InitSliding == Init /\ family = "sliding"

NextSliding ==
    \/ Tick
    \/ \E c \in Clients : SlidingRegisterHit(c)
    \/ \E c \in Clients : SlidingGetHits(c)

SpecSliding == InitSliding /\ [][NextSliding]_vars

InitFloating == Init /\ family = "floating"

NextFloating ==
    \/ Tick
    \/ \E c \in Clients : FloatingRegisterHit(c)
    \/ \E c \in Clients : FloatingGetHits(c)

SpecFloating == InitFloating /\ [][NextFloating]_vars

InitToken == InitWith(TokenOptsSet) /\ family = "token"

NextToken ==
    \/ Tick
    \/ \E c \in Clients : TokenRegisterHit(c)
    \/ \E c \in Clients : TokenGetHits(c)

SpecToken == InitToken /\ [][NextToken]_vars

\* The token bucket's calls without the bookkeeping of refill deadlines
TokenStoreHit(c) ==
    /\ family = "token"
    /\ before' = Snapshot
    /\ TotalHits < HitCap
    /\ LET t == TokenTxRegisterHit(kv["tx"], c, now)
           s == TokenScriptRegisterHit(kv["script"], c, now)
       IN  /\ kv' = [kv EXCEPT !["tx"] = t.st, !["script"] = s.st]
           /\ res' = [op |-> "registerHit", c |-> c, tx |-> t.ret, script |-> s.ret]
    /\ hist' = [hist EXCEPT ![c] = Append(@, now)]
    /\ UNCHANGED <<admitBy, family, opts, storeSynced, now, fixedMem, floatMem, uuids, pc, call>>

NextTokenStore ==
    \/ Tick
    \/ \E c \in Clients : TokenStoreHit(c)
    \/ \E c \in Clients : TokenGetHits(c)

SpecTokenStore == InitToken /\ [][NextTokenStore]_vars

(***************************************************************************)
(* The in-memory limiters with their maintenance calls.  checkExpiration   *)
(* and clear exist only on the in-memory classes; the store-backed         *)
(* limiters of the same family run alongside and are left alone by them.   *)
(***************************************************************************)
\* A clear that always rebuilds the first window
FixedMemClearAtStartDate(ts) == RateLimiterWindow(opts.startDate, opts.windowSizeMs)

\* FixedWindowInMemoryLimiter.clear
FixedMemClear(ts) == RateLimiterWindow(calcCurrentWindowStartTs(ts), opts.windowSizeMs)

\* A clear that rebuilds the windows of the construction instant
FloatingMemClearAtConstruction(ts) ==
    [currentWindow |-> RateLimiterWindow(calcCurrentWindowStartTs(0), opts.windowSizeMs),
     previousWindow |-> RateLimiterWindow(calcCurrentWindowStartTs(0) - opts.windowSizeMs,
                                          opts.windowSizeMs)]

\* FloatingWindowInMemoryLimiter.clear
FloatingMemClear(ts) ==
    [currentWindow |-> RateLimiterWindow(calcCurrentWindowStartTs(ts), opts.windowSizeMs),
     previousWindow |-> RateLimiterWindow(calcCurrentWindowStartTs(ts) - opts.windowSizeMs,
                                          opts.windowSizeMs)]

\* FixedWindowInMemoryLimiter.checkExpiration
FixedCheckExpiration ==
    /\ family = "fixed"
    /\ before' = Snapshot
    /\ fixedMem' = FixedMemCheckWindowExpiration(fixedMem, now)
    /\ res' = [op |-> "checkExpiration"]
    /\ UNCHANGED <<admitBy, family, opts, storeSynced, now, kv, floatMem, uuids, hist, pc, call>>

\* FixedWindowInMemoryLimiter.clear
FixedClear ==
    /\ family = "fixed"
    /\ before' = Snapshot
    /\ fixedMem' = FixedMemClear(now)
    /\ res' = [op |-> "clear"]
    /\ UNCHANGED <<admitBy, family, opts, storeSynced, now, kv, floatMem, uuids, hist, pc, call>>

\* A checkExpiration that drops the held windows
FloatingCheckExpirationClearing ==
    /\ family = "floating"
    /\ before' = Snapshot
    /\ floatMem' = FloatingMemClear(now)
    /\ res' = [op |-> "checkExpiration"]
    /\ UNCHANGED <<admitBy, family, opts, storeSynced, now, kv, fixedMem, uuids, hist, pc, call>>

\* FloatingWindowInMemoryLimiter.checkExpiration
FloatingCheckExpiration ==
    /\ family = "floating"
    /\ before' = Snapshot
    /\ floatMem' = FloatingMemCheckWindowExpiration(floatMem, now)
    /\ res' = [op |-> "checkExpiration"]
    /\ UNCHANGED <<admitBy, family, opts, storeSynced, now, kv, fixedMem, uuids, hist, pc, call>>

\* FloatingWindowInMemoryLimiter.clear
FloatingClear ==
    /\ family = "floating"
    /\ before' = Snapshot
    /\ floatMem' = FloatingMemClear(now)
    /\ res' = [op |-> "clear"]
    /\ UNCHANGED <<admitBy, family, opts, storeSynced, now, kv, fixedMem, uuids, hist, pc, call>>

\* The in-memory limiters are also run with a window of one instant, so that
\* a call can come two whole windows after the one before it
MemWindowSizes == {1, 2}

MemOptsSet ==
    [limit : Limits, windowSizeMs : MemWindowSizes, startDate : StartDates,
     refillIntervalMs : WindowSizes, refillRate : RefillRates]

InitMem == InitWith(MemOptsSet) /\ family \in {"fixed", "floating"} /\ storeSynced

NextMem ==
    \/ Tick
    \/ \E c \in Clients : FixedRegisterHit(c)
    \/ \E c \in Clients : FixedGetHits(c)
    \/ FixedCheckExpiration
    \/ FixedClear
    \/ \E c \in Clients : FloatingRegisterHit(c)
    \/ \E c \in Clients : FloatingGetHits(c)
    \/ FloatingCheckExpiration
    \/ FloatingClear

SpecMem == InitMem /\ [][NextMem]_vars

(***************************************************************************)
(* What a script variant's registerHit does with the reply of the script   *)
(* run.  The reply is whatever the store's client hands back: a number, a  *)
(* string or null.  A string is a sequence of characters.                  *)
(***************************************************************************)
MaxReplyLen == 2
ReplyChars == {"-", "0", "1", "a"}
ReplyNumbers == -2..1

RECURSIVE StringsUpTo(_)
StringsUpTo(n) ==
    IF n = 0 THEN {<<>>}
    ELSE LET shorter == StringsUpTo(n - 1)
         IN  shorter \cup {Append(t, ch) : t \in shorter, ch \in ReplyChars}

Replies ==
    {[type |-> "number", num |-> n, str |-> <<>>] : n \in ReplyNumbers}
    \cup {[type |-> "string", num |-> 0, str |-> t] : t \in StringsUpTo(MaxReplyLen)}
    \cup {[type |-> "null", num |-> 0, str |-> <<>>]}

\* The outcomes of a call: a returned number, a returned NaN, a thrown error
Returned(v) == [kind |-> "value", v |-> v]
ReturnedNaN == [kind |-> "NaN", v |-> 0]
Thrown == [kind |-> "throw", v |-> 0]

AllDigits(t) == Len(t) >= 1 /\ \A i \in 1..Len(t) : t[i] \in {"0", "1"}

RECURSIVE DigitsValue(_)
DigitsValue(t) ==
    IF t = <<>> THEN 0
    ELSE 10 * DigitsValue(SubSeq(t, 1, Len(t) - 1)) + (IF t[Len(t)] = "1" THEN 1 ELSE 0)

\* JavaScript's Number(x) on a reply: a number is itself, null is 0, the
\* empty string is 0, a decimal literal is its value, anything else is NaN
JsNumber(reply) ==
    CASE reply.type = "number" -> Returned(reply.num)
      [] reply.type = "null" -> Returned(0)
      [] reply.type = "string" ->
            IF reply.str = <<>> THEN Returned(0)
            ELSE IF AllDigits(reply.str) THEN Returned(DigitsValue(reply.str))
            ELSE IF reply.str[1] = "-" /\ AllDigits(Tail(reply.str))
                 THEN Returned(-DigitsValue(Tail(reply.str)))
            ELSE ReturnedNaN

\* FixedWindowLimiter.registerHit, from the script's result on
FixedScriptResult(result) ==
    IF result.type # "number" THEN Thrown ELSE Returned(Max(result.num, -1))

\* SlidingWindowLimiter.registerHit, from the script's result on
SlidingScriptResult(result) ==
    IF result.type # "number" THEN Thrown ELSE Returned(result.num)

\* FloatingWindowLimiter.registerHit, from the script's result on
FloatingScriptResult(result) ==
    IF result.type # "number" THEN Thrown ELSE Returned(Floor(Rat(result.num, 1)))

\* TokenBucketLimiter.registerHit, from the script's result on:
\* Math.floor(Number(result)); Math.floor(NaN) is NaN
TokenScriptResult(result) ==
    LET n == JsNumber(result)
    IN  IF n.kind = "NaN" THEN ReturnedNaN ELSE Returned(Floor(Rat(n.v, 1)))

ScriptReplied(r, outcome) ==
    /\ before' = Snapshot
    /\ res' = [op |-> "scriptReply", reply |-> r, outcome |-> outcome]
    /\ UNCHANGED <<admitBy, family, opts, storeSynced, now, kv, fixedMem, floatMem, uuids, hist, pc, call>>

FixedScriptReplied(r) == family = "fixed" /\ ScriptReplied(r, FixedScriptResult(r))

SlidingScriptReplied(r) == family = "sliding" /\ ScriptReplied(r, SlidingScriptResult(r))

FloatingScriptReplied(r) == family = "floating" /\ ScriptReplied(r, FloatingScriptResult(r))

TokenScriptReplied(r) == family = "token" /\ ScriptReplied(r, TokenScriptResult(r))

NextReply ==
    \/ \E r \in Replies : FixedScriptReplied(r)
    \/ \E r \in Replies : SlidingScriptReplied(r)
    \/ \E r \in Replies : FloatingScriptReplied(r)
    \/ \E r \in Replies : TokenScriptReplied(r)

SpecReply == Init /\ [][NextReply]_vars

(***************************************************************************)
(* Construction with caller-given options.  The options object is partial: *)
(* each field is given or left out, and a given number may be any number.  *)
(***************************************************************************)
OptionFields == {"limit", "windowSizeMs", "refillIntervalMs", "refillRate"}

\* The numeric fields of the options schema of this family's classes
SchemaFields ==
    IF family = "token" THEN {"limit", "refillIntervalMs", "refillRate"}
    ELSE {"limit", "windowSizeMs"}

LeftOut == [given |-> FALSE, v |-> [n |-> 0, d |-> 1]]
OptionValues ==
    {[n |-> -1, d |-> 1], [n |-> 0, d |-> 1], [n |-> 1, d |-> 2], [n |-> 1, d |-> 1], [n |-> 2, d |-> 1]}
GivenOptions == [OptionFields -> {LeftOut} \cup {[given |-> TRUE, v |-> x] : x \in OptionValues}]

\* z.number().int(): passes whole numbers only
zInt(v) == v.n % v.d = 0

\* z.number().positive()
zPositive(v) == v.n > 0

\* A check that lets zero and negative whole numbers through
zIntOnly(v) == zInt(v)

\* z.number().int().positive()
zIntPositive(v) == zInt(v) /\ zPositive(v)

\* The schema's check of one field
FieldPasses(f, v) == IF f = "refillRate" THEN zPositive(v) ELSE zIntPositive(v)

\* schema.partial().parse(opts): a field left out passes, a given field
\* passes its own check
PartialParsePasses(given) ==
    \A f \in SchemaFields : given[f].given => FieldPasses(f, given[f].v)

\* The defaultOpts of the classes
DefaultOpts ==
    [limit |-> [n |-> 20, d |-> 1], windowSizeMs |-> [n |-> 60000, d |-> 1],
     refillIntervalMs |-> [n |-> 3000, d |-> 1], refillRate |-> [n |-> 1, d |-> 1]]

\* { ...defaultOpts, ...opts }
MergedOpts(given) ==
    [f \in SchemaFields |-> IF given[f].given THEN given[f].v ELSE DefaultOpts[f]]

\* new Limiter(valkey, opts): the constructor of every class of the family
Construct(given) ==
    /\ \A f \in OptionFields \ SchemaFields : ~given[f].given
    /\ before' = Snapshot
    /\ res' = IF PartialParsePasses(given)
              THEN [op |-> "construct", given |-> given, outcome |-> "instance",
                    opts |-> MergedOpts(given)]
              ELSE [op |-> "construct", given |-> given, outcome |-> "throw",
                    opts |-> [f \in SchemaFields |-> LeftOut.v]]
    /\ UNCHANGED <<admitBy, family, opts, storeSynced, now, kv, fixedMem, floatMem, uuids, hist, pc, call>>

NextConstruct == \E given \in GivenOptions : Construct(given)

SpecConstruct == Init /\ [][NextConstruct]_vars

(***************************************************************************)
(* Construction with an options object whose fields may also be present    *)
(* with the value undefined, which Partial<Opts> admits.                   *)
(***************************************************************************)
\* The JavaScript value undefined in the place of a number
Undefined == [n |-> 0, d |-> 0]

PresentOptions ==
    [OptionFields -> {LeftOut} \cup {[given |-> TRUE, v |-> x] : x \in OptionValues \cup {Undefined}}]

\* A field of schema.partial() is the field's schema made optional: the
\* value undefined passes, any other value passes the field's own check
zOptional(f, v) == v = Undefined \/ FieldPasses(f, v)

\* schema.partial().parse(opts); its return value is not used
PartialParseAccepts(given) ==
    \A f \in SchemaFields : given[f].given => zOptional(f, given[f].v)

\* new Limiter(valkey, opts) with this.opts = { ...defaultOpts, ...opts }:
\* the spread copies every own property of opts, whatever its value
ConstructPresent(given) ==
    /\ \A f \in OptionFields \ SchemaFields : ~given[f].given
    /\ before' = Snapshot
    /\ res' = IF PartialParseAccepts(given)
              THEN [op |-> "construct", given |-> given, outcome |-> "instance",
                    opts |-> MergedOpts(given)]
              ELSE [op |-> "construct", given |-> given, outcome |-> "throw",
                    opts |-> [f \in SchemaFields |-> LeftOut.v]]
    /\ UNCHANGED <<admitBy, family, opts, storeSynced, now, kv, fixedMem, floatMem, uuids, hist, pc, call>>

NextConstructPresent == \E given \in PresentOptions : ConstructPresent(given)

SpecConstructPresent == Init /\ [][NextConstructPresent]_vars

(***************************************************************************)
(* Concurrent callers of the token bucket's transaction variant.  Its      *)
(* registerHit makes three round trips to the store, and the calls of      *)
(* other callers can come between them: GET of the tokens, GET of the      *)
(* timestamp, and the MULTI { SET, SET } EXEC of updateBucket.             *)
(***************************************************************************)
RaceProcs == {1, 2}

\* An update that reads the stored tokens again instead of using the count
\* read at the start of the call
TokenTxFinishRereading(s, clientId, nowTs, currentLimit, refill) ==
    LET stored == IF Has(s, getNTokensKey(clientId))
                  THEN s[getNTokensKey(clientId)].val ELSE RatInt(opts.limit)
        tokensCount == RatAdd(stored, refill)
        valuetoUpdate == IF ~RatLess(tokensCount, RatInt(1))
                         THEN RatSub(tokensCount, RatInt(1)) ELSE tokensCount
    IN  [st |-> updateBucket(s, clientId, valuetoUpdate, nowTs),
         ret |-> Floor(RatSub(tokensCount, RatInt(1)))]

\* TokenBucketLimiterNoLua.registerHit from tokensCount on: the update of
\* the bucket and the returned value
TokenTxFinish(s, clientId, nowTs, currentLimit, refill) ==
    LET tokensCount == RatAdd(currentLimit, refill)
        valuetoUpdate == IF ~RatLess(tokensCount, RatInt(1))
                         THEN RatSub(tokensCount, RatInt(1)) ELSE tokensCount
    IN  [st |-> updateBucket(s, clientId, valuetoUpdate, nowTs),
         ret |-> Floor(RatSub(tokensCount, RatInt(1)))]

\* registerHit is called: const nowTs = Date.now()
TxInvoke(p, c) ==
    /\ family = "token"
    /\ pc[p] = "idle"
    /\ \A q \in RaceProcs : q < p => pc[q] # "idle"
    /\ pc' = [pc EXCEPT ![p] = "invoked"]
    /\ call' = [call EXCEPT ![p] =
                   [op |-> "registerHit", c |-> c, nowTs |-> now,
                    currentLimit |-> NoDeadline, refill |-> NoDeadline, ret |-> 0]]
    /\ UNCHANGED <<admitBy, family, opts, storeSynced, now, kv, fixedMem, floatMem, uuids, hist, res, before>>

\* await this.valkey.get(this.getNTokensKey(clientId)) ?? this.opts.limit
TxGetTokens(p) ==
    /\ pc[p] = "invoked"
    /\ pc' = [pc EXCEPT ![p] = "gotTokens"]
    /\ call' = [call EXCEPT ![p].currentLimit =
                   IF Has(kv["tx"], getNTokensKey(call[p].c))
                   THEN kv["tx"][getNTokensKey(call[p].c)].val ELSE RatInt(opts.limit)]
    /\ UNCHANGED <<admitBy, family, opts, storeSynced, now, kv, fixedMem, floatMem, uuids, hist, res, before>>

\* await this.calculateRefilledTokenAmountAtTime(clientId, nowTs)
TxGetTs(p) ==
    /\ pc[p] = "gotTokens"
    /\ pc' = [pc EXCEPT ![p] = "gotTs"]
    /\ call' = [call EXCEPT ![p].refill =
                   calculateRefilledTokenAmountAtTime(kv["tx"], call[p].c, call[p].nowTs)]
    /\ UNCHANGED <<admitBy, family, opts, storeSynced, now, kv, fixedMem, floatMem, uuids, hist, res, before>>

\* await this.updateBucket(clientId, valuetoUpdate, nowTs) and the return
TxUpdate(p) ==
    /\ pc[p] = "gotTs"
    /\ LET r == TokenTxFinish(kv["tx"], call[p].c, call[p].nowTs, call[p].currentLimit, call[p].refill)
       IN  /\ kv' = [kv EXCEPT !["tx"] = r.st]
           /\ call' = [call EXCEPT ![p].ret = r.ret]
    /\ pc' = [pc EXCEPT ![p] = "done"]
    /\ hist' = [hist EXCEPT ![call[p].c] = Append(@, call[p].nowTs)]
    /\ UNCHANGED <<admitBy, family, opts, storeSynced, now, fixedMem, floatMem, uuids, res, before>>

NextTokenRace ==
    \/ Tick
    \/ \E p \in RaceProcs, c \in Clients : TxInvoke(p, c)
    \/ \E p \in RaceProcs : TxGetTokens(p)
    \/ \E p \in RaceProcs : TxGetTs(p)
    \/ \E p \in RaceProcs : TxUpdate(p)

SpecTokenRace == InitToken /\ [][NextTokenRace]_vars

(***************************************************************************)
(* Concurrent callers of the window limiters' transaction variants.  The   *)
(* fixed and floating registerHit make one round trip, a MULTI/EXEC        *)
(* transaction; the sliding registerHit makes two, removeExpiredHits and   *)
(* then its transaction.  The store runs each round trip as one step.      *)
(***************************************************************************)
\* SlidingWindowLimiterNoLua.registerHit after removeExpiredHits:
\* MULTI { ZREMRANGEBYSCORE, ZADD, PEXPIREAT, ZCOUNT } EXEC
SlidingTxExec(s, clientId, nowTs, uuid) ==
    LET windowStartTs == nowTs - opts.windowSizeMs
        key == SlidingGetClientKey(clientId)
        s1 == ZRemRangeByScore(s, key, windowStartTs)
        s2 == ZAdd(s1, key, uuid, nowTs)
        s3 == PExpireAt(s2, key, nowTs + opts.windowSizeMs)
        count == ZCount(s3, key, windowStartTs, nowTs)
    IN  [st |-> s3, ret |-> opts.limit - count]

\* registerHit is called: const nowTs = Date.now()
WinTxInvoke(p, c) ==
    /\ pc[p] = "idle"
    /\ \A q \in Procs : q < p => pc[q] # "idle"
    /\ pc' = [pc EXCEPT ![p] = "invoked"]
    /\ call' = [call EXCEPT ![p] = [op |-> "registerHit", c |-> c, nowTs |-> now, ret |-> 0]]
    /\ UNCHANGED <<admitBy, family, opts, storeSynced, now, kv, fixedMem, floatMem, uuids, hist, res, before>>

\* The state change shared by the transactions that end a call
WinTxDone(p, r) ==
    /\ kv' = [kv EXCEPT !["tx"] = r.st]
    /\ call' = [call EXCEPT ![p].ret = r.ret]
    /\ pc' = [pc EXCEPT ![p] = "done"]
    /\ hist' = [hist EXCEPT ![call[p].c] = Append(@, call[p].nowTs)]
    /\ UNCHANGED <<admitBy, family, opts, storeSynced, now, fixedMem, floatMem, res, before>>

FixedTxRun(p) ==
    /\ family = "fixed"
    /\ pc[p] = "invoked"
    /\ WinTxDone(p, FixedTxRegisterHit(kv["tx"], call[p].c, call[p].nowTs))
    /\ UNCHANGED uuids

FloatingTxRun(p) ==
    /\ family = "floating"
    /\ pc[p] = "invoked"
    /\ WinTxDone(p, FloatingTxRegisterHit(kv["tx"], call[p].c, call[p].nowTs))
    /\ UNCHANGED uuids

\* await this.removeExpiredHits(clientId, nowTs)
SlidingTxTrim(p) ==
    /\ family = "sliding"
    /\ pc[p] = "invoked"
    /\ kv' = [kv EXCEPT !["tx"] = SlidingRemoveExpiredHits(kv["tx"], call[p].c, call[p].nowTs)]
    /\ pc' = [pc EXCEPT ![p] = "trimmed"]
    /\ UNCHANGED <<admitBy, family, opts, storeSynced, now, fixedMem, floatMem, uuids, hist, res, before, call>>

\* The transaction, built with a new crypto.randomUUID()
SlidingTxRun(p) ==
    /\ family = "sliding"
    /\ pc[p] = "trimmed"
    /\ WinTxDone(p, SlidingTxExec(kv["tx"], call[p].c, call[p].nowTs, randomUUID(uuids["tx"])))
    /\ uuids' = [uuids EXCEPT !["tx"] = @ + 1]

InitWinTx == Init /\ family \in {"fixed", "sliding", "floating"}

NextWinTx ==
    \/ Tick
    \/ \E p \in Procs, c \in Clients : WinTxInvoke(p, c)
    \/ \E p \in Procs : FixedTxRun(p)
    \/ \E p \in Procs : FloatingTxRun(p)
    \/ \E p \in Procs : SlidingTxTrim(p)
    \/ \E p \in Procs : SlidingTxRun(p)

SpecWinTx == InitWinTx /\ [][NextWinTx]_vars

(***************************************************************************)
(* Concurrent callers of the fixed and floating limiters, both variants    *)
(* side by side: a caller reads the clock, and its round trip (the script  *)
(* run, the transaction) reaches each store as one step, possibly after    *)
(* the clock has moved on.                                                 *)
(***************************************************************************)
WinStoreDone(p, tx, script) ==
    /\ kv' = [kv EXCEPT !["tx"] = tx.st, !["script"] = script.st]
    /\ call' = [call EXCEPT ![p].ret = tx.ret]
    /\ pc' = [pc EXCEPT ![p] = "done"]
    /\ hist' = [hist EXCEPT ![call[p].c] = Append(@, call[p].nowTs)]
    /\ UNCHANGED <<admitBy, family, opts, storeSynced, now, fixedMem, floatMem, uuids, res, before>>

FixedStoreRun(p) ==
    /\ family = "fixed"
    /\ pc[p] = "invoked"
    /\ WinStoreDone(p, FixedTxRegisterHit(kv["tx"], call[p].c, call[p].nowTs),
                       FixedScriptRegisterHit(kv["script"], call[p].c, call[p].nowTs))

FloatingStoreRun(p) ==
    /\ family = "floating"
    /\ pc[p] = "invoked"
    /\ WinStoreDone(p, FloatingTxRegisterHit(kv["tx"], call[p].c, call[p].nowTs),
                       FloatingScriptRegisterHit(kv["script"], call[p].c, call[p].nowTs))

InitWinStore == Init /\ family \in {"fixed", "floating"}

NextWinStore ==
    \/ Tick
    \/ \E p \in Procs, c \in Clients : WinTxInvoke(p, c)
    \/ \E p \in Procs : FixedStoreRun(p)
    \/ \E p \in Procs : FloatingStoreRun(p)

SpecWinStore == InitWinStore /\ [][NextWinStore]_vars

(***************************************************************************)
(* The two-call form of the fixed window limiter: applyLimit reads the     *)
(* counter (getCurrentRequestAmount) and, when the count read is below the *)
(* limit, increments it in a second round trip (trackRequest).  Each round *)
(* trip computes the key from the clock at that moment.  The calls of      *)
(* other callers can come between the two round trips.                     *)
(***************************************************************************)
\* getCurrentRequestAmount: str ? +str : null, null read as 0
getCurrentRequestAmount(s, clientId, nowTs) ==
    StoredCount(s, FixedGetClientKey(clientId, nowTs))

\* A test that lets the call through at the limit
applyLimitIsLimitedAbove(nRequests) == nRequests # 0 /\ nRequests > opts.limit

\* applyLimit: nRequests && nRequests >= this.opts.limit
applyLimitIsLimited(nRequests) == nRequests # 0 /\ nRequests >= opts.limit

\* trackRequest: MULTI { INCR, PEXPIREAT } EXEC
trackRequest(s, clientId, nowTs) ==
    LET key == FixedGetClientKey(clientId, nowTs)
        expireAt == calcCurrentWindowStartTs(nowTs) + opts.windowSizeMs
    IN  PExpireAt(Incr(s, key), key, expireAt)

\* A caller starts applyLimit and reads the counter; a count at the limit
\* ends the call as limited.  The call notes whether another call was
\* between its two round trips at that moment.
ApplyLimitRead(p, c) ==
    /\ family = "fixed"
    /\ pc[p] = "idle"
    /\ \A q \in Procs : q < p => pc[q] # "idle"
    /\ LET nRequests == getCurrentRequestAmount(kv["tx"], c, now)
       IN  /\ call' = [call EXCEPT ![p] =
                          [op |-> "applyLimit", c |-> c, nowTs |-> now, nRequests |-> nRequests,
                           overlapped |-> \E q \in Procs : pc[q] = "read",
                           limited |-> applyLimitIsLimited(nRequests)]]
           /\ pc' = [pc EXCEPT ![p] = IF applyLimitIsLimited(nRequests) THEN "done" ELSE "read"]
    /\ UNCHANGED <<admitBy, family, opts, storeSynced, now, kv, fixedMem, floatMem, uuids, hist, res, before>>

\* The second round trip of a call that was not limited
ApplyLimitTrack(p) ==
    /\ family = "fixed"
    /\ pc[p] = "read"
    /\ kv' = [kv EXCEPT !["tx"] = trackRequest(kv["tx"], call[p].c, now)]
    /\ pc' = [pc EXCEPT ![p] = "done"]
    /\ hist' = [hist EXCEPT ![call[p].c] = Append(@, now)]
    /\ UNCHANGED <<admitBy, family, opts, storeSynced, now, fixedMem, floatMem, uuids, res, before, call>>

NextApplyLimit ==
    \/ Tick
    \/ \E p \in Procs, c \in Clients : ApplyLimitRead(p, c)
    \/ \E p \in Procs : ApplyLimitTrack(p)

SpecApplyLimit == InitFixed /\ [][NextApplyLimit]_vars

(***************************************************************************)
(* Properties.                                                             *)
(***************************************************************************)
HasMem == family \in {"fixed", "floating"}

\* The registerHit calls of client c with lo < instant <= hi
HitsIn(c, lo, hi) ==
    Cardinality({i \in 1..Len(hist[c]) : lo < hist[c][i] /\ hist[c][i] <= hi})

Last(h) == h[Len(h)]

\* C1: script variants are race-free.  For every client, when all the
\* completed concurrent registerHit calls of the client were made at the
\* current instant (the client was fresh), exactly min(k, limit) of the k
\* calls returned a value >= 0, and no two of those returned the same value.
C1_ScriptRaceFree ==
    \A c \in Clients :
        LET done == {p \in Procs : pc[p] = "done" /\ call[p].c = c}
            admitted == {p \in done : call[p].ret >= 0}
        IN  (\A p \in done : call[p].nowTs = now) =>
                /\ Cardinality(admitted) = Min(Cardinality(done), opts.limit)
                /\ \A p, q \in admitted : p # q => call[p].ret # call[q].ret

\* More concurrent calls than allowance, all at one instant, a second client active
C1_Witness ==
    /\ \A p \in Procs : pc[p] = "done" /\ call[p].nowTs = now
    /\ Cardinality({p \in Procs : call[p].c = ""}) > opts.limit
    /\ \E p \in Procs : call[p].c = "" /\ call[p].ret < 0
    /\ now > 0

\* C2: monotonic depletion.  The k-th registerHit of a client whose first
\* hit was made at the current instant returns limit - k in every variant,
\* for k = 1 .. limit + 1 (so N-1, ..., 0 and then -1).
C2_MonotonicDepletion ==
    (res.op = "registerHit" /\ hist[res.c][1] = now /\ Len(hist[res.c]) <= opts.limit + 1) =>
        LET k == Len(hist[res.c])
        IN  /\ res.tx = opts.limit - k
            /\ res.script = opts.limit - k
            /\ HasMem => res.mem = opts.limit - k

\* The (N+1)-th hit of a fresh client, N = 2, after another client made a hit
C2_Witness ==
    /\ res.op = "registerHit" /\ res.c = "1:"
    /\ opts.limit = 2 /\ Len(hist["1:"]) = 3 /\ hist["1:"][1] = now
    /\ Len(hist[""]) = 1 /\ Last(hist[""]) < now
    /\ res.tx = -1 /\ res.script = -1

\* Every key a client can address in a store
ClientKeys(c) ==
    CASE family = "fixed" -> {FixedGetClientKey(c, t) : t \in 0..MaxTime}
      [] family = "sliding" -> {SlidingGetClientKey(c)}
      [] family = "floating" ->
            {FloatingGetClientWindowKey(c, calcCurrentWindowStartTs(t)) :
                t \in (-opts.windowSizeMs)..MaxTime}
      [] family = "token" -> {getNTokensKey(c), getTsKey(c)}

\* What is stored for client c in the stores and windows x: its keys in each
\* store, and its counters in the in-memory windows that are current or
\* previous at this instant
StoredFor(x, c) ==
    [store |-> [v \in Variants |-> [k \in ClientKeys(c) \cap DOMAIN x.kv[v] |-> x.kv[v][k]]],
     fixedMem |-> MapGet(FixedMemCheckWindowExpiration(x.fixedMem, now).clientHitCounter, c),
     floatCur |-> MapGet(FloatingMemCheckWindowExpiration(x.floatMem, now).currentWindow.clientHitCounter, c),
     floatPrev |-> MapGet(FloatingMemCheckWindowExpiration(x.floatMem, now).previousWindow.clientHitCounter, c)]

\* What getAvailableHits(c) and registerHit(c) return at this instant on the
\* stores and windows x
ResultsFor(x, c) ==
    CASE family = "fixed" ->
            <<FixedGetAvailableHits(x.kv["tx"], c, now), FixedGetAvailableHits(x.kv["script"], c, now),
              FixedMemGetAvailableHits(x.fixedMem, c, now).ret,
              FixedTxRegisterHit(x.kv["tx"], c, now).ret, FixedScriptRegisterHit(x.kv["script"], c, now).ret,
              FixedMemRegisterHit(x.fixedMem, c, now).ret>>
      [] family = "sliding" ->
            <<SlidingGetAvailableHits(x.kv["tx"], c, now), SlidingGetAvailableHits(x.kv["script"], c, now),
              SlidingTxRegisterHit(x.kv["tx"], c, now, randomUUID(x.uuids["tx"])).ret,
              SlidingScriptRegisterHit(x.kv["script"], c, now, randomUUID(x.uuids["script"])).ret>>
      [] family = "floating" ->
            <<FloatingGetAvailableHits(x.kv["tx"], c, now), FloatingGetAvailableHits(x.kv["script"], c, now),
              FloatingMemGetAvailableHits(x.floatMem, c, now).ret,
              FloatingTxRegisterHit(x.kv["tx"], c, now).ret, FloatingScriptRegisterHit(x.kv["script"], c, now).ret,
              FloatingMemRegisterHit(x.floatMem, c, now).ret>>
      [] family = "token" ->
            <<TokenGetAvailableHits(x.kv["tx"], c, now), TokenGetAvailableHits(x.kv["script"], c, now),
              TokenTxRegisterHit(x.kv["tx"], c, now).ret, TokenScriptRegisterHit(x.kv["script"], c, now).ret>>

\* C3: client isolation.  A registerHit or getAvailableHits call for one
\* client leaves what is stored for any other client b unchanged, and with
\* it what getAvailableHits(b) and registerHit(b) return.
C3_ClientIsolation ==
    res.op # "none" =>
        \A b \in Clients \ {res.c} :
            /\ StoredFor(Snapshot, b) = StoredFor(before, b)
            /\ ResultsFor(Snapshot, b) = ResultsFor(before, b)

\* A hit for one client while the other has hits stored in the same window
C3_Witness ==
    /\ res.op = "registerHit" /\ res.c = "1:"
    /\ Len(hist[""]) >= 2 /\ Last(hist[""]) = now
    /\ Len(hist["1:"]) >= 2

\* C4: fixed window boundary reset.  When the last hit of a client is at
\* least windowSize old, getAvailableHits returns limit and registerHit
\* returns limit - 1 in all three variants, whatever was consumed before.
C4_FixedBoundaryReset ==
    family = "fixed" =>
        /\ (res.op = "getAvailableHits" /\ Len(hist[res.c]) >= 1
                /\ Last(hist[res.c]) <= now - opts.windowSizeMs) =>
              (res.tx = opts.limit /\ res.script = opts.limit /\ res.mem = opts.limit)
        /\ (res.op = "registerHit" /\ Len(hist[res.c]) >= 2
                /\ hist[res.c][Len(hist[res.c]) - 1] <= now - opts.windowSizeMs) =>
              (res.tx = opts.limit - 1 /\ res.script = opts.limit - 1 /\ res.mem = opts.limit - 1)

\* The limit was exceeded, the clock advanced by exactly windowSize, then a hit
C4_Witness ==
    /\ family = "fixed" /\ res.op = "registerHit"
    /\ Len(hist[res.c]) = opts.limit + 2
    /\ hist[res.c][Len(hist[res.c]) - 1] = now - opts.windowSizeMs
    /\ hist[res.c][1] = now - opts.windowSizeMs
    /\ res.mem = opts.limit - 1

\* The registerHit calls of client c made in the fixed window that holds the
\* current instant
HitsInFixedWindow(c) == HitsIn(c, calcCurrentWindowStartTs(now) - 1, now)

\* C5: fixed window never clamps.  The k-th registerHit of a client inside
\* one window returns exactly limit - k in each of the three fixed-window
\* implementations, also after the limit is exceeded (-1, -2, -3, ...).
C5_FixedNeverClamps ==
    (family = "fixed" /\ res.op = "registerHit") =>
        LET k == HitsInFixedWindow(res.c)
        IN  /\ res.tx = opts.limit - k
            /\ res.script = opts.limit - k
            /\ res.mem = opts.limit - k

\* C6: fixed window getAvailableHits returns a value >= 0 in each of the
\* three implementations, after any sequence of hits and clock advances.
C6_FixedAvailableNonNegative ==
    (family = "fixed" /\ res.op = "getAvailableHits") =>
        (res.tx >= 0 /\ res.script >= 0 /\ res.mem >= 0)

\* C7: sliding window registerHit equals the reference trailing count.  In
\* both variants registerHit(c) at instant now returns limit - n, n being the
\* number of registerHit calls of c (this one and limited ones included)
\* with now - windowSize < ts <= now; hits of one millisecond count apart.
C7_SlidingTrailingCount ==
    (family = "sliding" /\ res.op = "registerHit") =>
        LET n == HitsIn(res.c, now - opts.windowSizeMs, now)
        IN  res.tx = opts.limit - n /\ res.script = opts.limit - n

\* Two hits in one millisecond, a limited hit, and a hit that is exactly
\* windowSize old and so no longer counted
C7_Witness ==
    /\ family = "sliding" /\ res.op = "registerHit"
    /\ Len(hist[res.c]) >= 4
    /\ hist[res.c][1] = now - opts.windowSizeMs
    /\ hist[res.c][Len(hist[res.c]) - 1] = now
    /\ HitsIn(res.c, now - opts.windowSizeMs, now) < Len(hist[res.c])
    /\ res.tx < 0

\* The hits of client c start with limit hits spaced S apart, all within
\* one windowSize
ExhaustedSpaced(c, S) ==
    /\ Len(hist[c]) >= opts.limit
    /\ (opts.limit - 1) * S < opts.windowSizeMs
    /\ \A i \in 1..(opts.limit - 1) : hist[c][i + 1] = hist[c][i] + S

\* The hits of client c after its first limit hits are made at the instants ts
LaterHitsAt(c, ts) ==
    /\ Len(hist[c]) = opts.limit + Len(ts)
    /\ \A i \in 1..Len(ts) : hist[c][opts.limit + i] = ts[i]

\* Both sliding variants returned r from the registerHit just made
SlidingReturned(r) == res.tx = r /\ res.script = r

\* C8 as stated: after limit hits at t1 < ... < tN spaced S apart, a hit at
\* t1 + W returns 0 and a second one at that instant returns -1; after a
\* further S one more hit returns 0 and the next one returns -1.  (Read for
\* limit >= 2, where the spacing S is defined by the hits.)
C8_SlidingGradualRefill ==
    (family = "sliding" /\ res.op = "registerHit" /\ opts.limit >= 2) =>
        \A S \in 1..opts.windowSizeMs :
            ExhaustedSpaced(res.c, S) =>
                LET c == res.c
                    u == hist[c][1] + opts.windowSizeMs
                IN  /\ LaterHitsAt(c, <<u>>) => SlidingReturned(0)
                    /\ LaterHitsAt(c, <<u, u>>) => SlidingReturned(-1)
                    /\ LaterHitsAt(c, <<u, u, u + S>>) => SlidingReturned(0)
                    /\ LaterHitsAt(c, <<u, u, u + S, u + S>>) => SlidingReturned(-1)

\* C8 amended: with limit >= 2, a hit at t1 + W returns 0 and a second one
\* at that instant returns -1.  Limited hits occupy the window too: when the
\* second hit at t1 + W was not made, after a further S one more hit returns
\* 0 and the next one -1; when it was made, the hit after a further S < W
\* returns -1.
C8_SlidingGradualRefillAmended ==
    (family = "sliding" /\ res.op = "registerHit" /\ opts.limit >= 2) =>
        \A S \in 1..opts.windowSizeMs :
            ExhaustedSpaced(res.c, S) =>
                LET c == res.c
                    u == hist[c][1] + opts.windowSizeMs
                IN  /\ LaterHitsAt(c, <<u>>) => SlidingReturned(0)
                    /\ LaterHitsAt(c, <<u, u>>) => SlidingReturned(-1)
                    /\ LaterHitsAt(c, <<u, u + S>>) => SlidingReturned(0)
                    /\ LaterHitsAt(c, <<u, u + S, u + S>>) => SlidingReturned(-1)
                    /\ (S < opts.windowSizeMs /\ LaterHitsAt(c, <<u, u, u + S>>))
                            => SlidingReturned(-1)

\* Two hits one step apart, one hit when the first aged out, and two hits
\* when the second aged out: the last one is limited
C8_Witness ==
    /\ family = "sliding" /\ res.op = "registerHit" /\ opts.limit = 2
    /\ ExhaustedSpaced(res.c, 1)
    /\ LaterHitsAt(res.c, <<now - 1, now, now>>)
    /\ hist[res.c][1] + opts.windowSizeMs = now - 1
    /\ SlidingReturned(-1)

\* A read that returns a is matched by a hit at the same instant that
\* returns r
ReadMatchesHit(a, r) == (a >= 1 => r = a - 1) /\ (a = 0 => r < 0)

\* C9: sliding window read/hit consistency.  In every reachable log state
\* and at every instant, in both variants: if getAvailableHits(c) returns
\* a >= 1 then registerHit(c) at the same instant returns a - 1, and if it
\* returns 0 then registerHit(c) returns a negative value.
C9_SlidingReadHitConsistency ==
    family = "sliding" =>
        \A c \in Clients :
            /\ ReadMatchesHit(SlidingGetAvailableHits(kv["tx"], c, now),
                    SlidingTxRegisterHit(kv["tx"], c, now, randomUUID(uuids["tx"])).ret)
            /\ ReadMatchesHit(SlidingGetAvailableHits(kv["script"], c, now),
                    SlidingScriptRegisterHit(kv["script"], c, now, randomUUID(uuids["script"])).ret)

\* floor(limit - (p * (W - t) / W + curCount)) at offset t into the current
\* fixed window, W = windowSize
FloatingReference(p, curCount) ==
    LET W == opts.windowSizeMs
        t == now - calcCurrentWindowStartTs(now)
    IN  (opts.limit * W - p * (W - t) - curCount * W) \div W

\* The reference value for the counters that store s holds for client c
\* (the current one already incremented)
FloatingStoreReference(s, c) ==
    LET currentWindowStart == calcCurrentWindowStartTs(now)
    IN  FloatingReference(
            StoredCount(s, FloatingGetClientWindowKey(c, currentWindowStart - opts.windowSizeMs)),
            StoredCount(s, FloatingGetClientWindowKey(c, currentWindowStart)))

\* C10: floating window approximation formula.  In the transaction, script
\* and in-memory implementations registerHit returns
\* floor(limit - (p * (W - t) / W + curCount)) for the previous-window count
\* p and the incremented current count curCount, also when limit - approx
\* is negative and not an integer.
C10_FloatingFormula ==
    (family = "floating" /\ res.op = "registerHit") =>
        /\ res.tx = FloatingStoreReference(kv["tx"], res.c)
        /\ res.script = FloatingStoreReference(kv["script"], res.c)
        /\ res.mem = FloatingReference(
                MapGet(floatMem.previousWindow.clientHitCounter, res.c),
                MapGet(floatMem.currentWindow.clientHitCounter, res.c))

(***************************************************************************)
(* The previous-window weight as a function of the instant, the window     *)
(* size and the start date.                                                *)
(***************************************************************************)
MaxWeightTime == 8
WeightWindowSizes == {1, 2, 3, 4}
WeightStartDates == {0, 1, 2, 3}

InitWeight ==
    /\ family = "floating"
    /\ opts \in [limit : Limits, windowSizeMs : WeightWindowSizes, startDate : WeightStartDates,
                  refillIntervalMs : {1}, refillRate : RefillRates]
    /\ storeSynced = TRUE
    /\ now = 0
    /\ kv = [v \in Variants |-> EmptyStore]
    /\ fixedMem = RateLimiterWindow(calcCurrentWindowStartTs(now), opts.windowSizeMs)
    /\ floatMem = [currentWindow |-> RateLimiterWindow(calcCurrentWindowStartTs(now), opts.windowSizeMs),
                   previousWindow |-> RateLimiterWindow(calcCurrentWindowStartTs(now) - opts.windowSizeMs,
                                                        opts.windowSizeMs)]
    /\ uuids = [v \in Variants |-> 0]
    /\ hist = [c \in Clients |-> <<>>]
    /\ res = NoCall
    /\ before = NoCall
    /\ admitBy = [v \in Variants |-> [c \in Clients |-> NoDeadline]]
    /\ pc = [p \in Procs |-> "idle"]
    /\ call = [p \in Procs |-> NoCall]

\* The weight is computed at some instant: by calcPrevWindowWeight, and by
\* the in-memory calcApproximation for one previous hit and no current one
\* (limit - approx = limit - weight)
WeightAt(t) ==
    /\ now' = t
    /\ res' = [op |-> "calcPrevWindowWeight",
               weight |-> calcPrevWindowWeight(t),
               memRemaining |-> FloatingMemRemaining(1, 0, t)]
    /\ UNCHANGED <<admitBy, family, opts, storeSynced, kv, fixedMem, floatMem, uuids, hist, before, pc, call>>

NextWeight == \E t \in 0..MaxWeightTime : WeightAt(t)

SpecWeight == InitWeight /\ [][NextWeight]_vars

(***************************************************************************)
(* The window start as a function of the instant, the window size and the  *)
(* start date, as each class computes it.                                  *)
(***************************************************************************)
\* FloatingWindowLimiterNoLua.calcFixedWindowStartTs
calcFixedWindowStartTs(nowTs) ==
    LET start == opts.startDate
        duration == opts.windowSizeMs
    IN  ((nowTs - start) \div duration) * duration + start

\* FixedWindowInMemoryLimiter.calcWindowStartTs
FixedMemCalcWindowStartTs(ts) ==
    LET start == opts.startDate
        duration == opts.windowSizeMs
    IN  ((ts - start) \div duration) * duration + start

\* FloatingWindowInMemoryLimiter.calcWindowStartTs
FloatingMemCalcWindowStartTs(ts) ==
    LET start == opts.startDate
        duration == opts.windowSizeMs
    IN  ((ts - start) \div duration) * duration + start

\* Each class computes the window start of some instant, and the fixed
\* limiter that of the instant one window size earlier
WindowStartAt(t) ==
    /\ now' = t
    /\ res' = [op |-> "calcWindowStartTs",
               fixed |-> calcCurrentWindowStartTs(t),
               floating |-> calcFixedWindowStartTs(t),
               fixedMem |-> FixedMemCalcWindowStartTs(t),
               floatingMem |-> FloatingMemCalcWindowStartTs(t),
               earlier |-> calcCurrentWindowStartTs(t - opts.windowSizeMs)]
    /\ UNCHANGED <<admitBy, family, opts, storeSynced, kv, fixedMem, floatMem, uuids, hist, before, pc, call>>

NextWindowStart == \E t \in 0..MaxWeightTime : WindowStartAt(t)

SpecWindowStart == InitWeight /\ [][NextWindowStart]_vars

\* The weight in res is (W - t) / W, from both computations, and one
\* instant later in the same window it is lower by 1 / W
WeightIsLinear ==
    LET W == opts.windowSizeMs
        t == now - calcCurrentWindowStartTs(now)
    IN  /\ res.weight = Rat(W - t, W)
        /\ res.memRemaining = Rat(opts.limit * W - (W - t), W)
        /\ t + 1 < W => calcPrevWindowWeight(now + 1) = Rat(W - t - 1, W)

\* C11 as stated: the previous-window weight lies in [0, 1) and decreases
\* linearly toward 0 as now moves through the current window.
C11_WeightRange ==
    res.op = "calcPrevWindowWeight" =>
        /\ 0 <= res.weight.n /\ res.weight.n < res.weight.d
        /\ WeightIsLinear

\* C11 amended: the previous-window weight is (W - t) / W at offset t into
\* the current window, so it lies in (0, 1]: it is 1 at the window's start,
\* decreases by 1 / W per instant, and is never 0.
C11_WeightRangeAmended ==
    res.op = "calcPrevWindowWeight" =>
        /\ 0 < res.weight.n /\ res.weight.n <= res.weight.d
        /\ WeightIsLinear

\* The weight at the very start of a window that began before the start date
C11_Witness ==
    /\ res.op = "calcPrevWindowWeight"
    /\ now = calcCurrentWindowStartTs(now) /\ now < opts.startDate
    /\ opts.windowSizeMs = 3
    /\ res.weight = Rat(3, 3)

\* The previous-window count that a registerHit or getAvailableHits of
\* client c reads at this instant from store s
PrevCountRead(s, c) ==
    StoredCount(s, FloatingGetClientWindowKey(c,
        calcCurrentWindowStartTs(now) - opts.windowSizeMs))

\* The registerHit calls client c made in the fixed window before the
\* current one
HitsInPrevWindow(c) ==
    LET ws == calcCurrentWindowStartTs(now)
    IN  HitsIn(c, ws - opts.windowSizeMs - 1, ws - 1)

\* C12: the store-backed floating window keeps the previous window's
\* counter.  With a store that removes a key at the instant given to
\* PEXPIREAT, the prevCount a call of client c reads at any instant of the
\* window [ws, ws + W) is the number of hits c made in [ws - W, ws).
C12_FloatingPrevCountKept ==
    (family = "floating" /\ storeSynced) =>
        \A c \in Clients : \A v \in Variants :
            PrevCountRead(kv[v], c) = HitsInPrevWindow(c)

\* A JS number, kept as a fraction, that is an integer
IsInteger(r) == r.n % r.d = 0

\* C13: getAvailableHits returns an integer for every window strategy.  The
\* fixed and sliding windows compute limit - count on integer counts; the
\* case to settle is the floating window, also with a non-zero
\* previous-window count at an instant strictly inside the current window.
C13_AvailableHitsInteger ==
    (family = "floating" /\ res.op = "getAvailableHits") =>
        (IsInteger(res.tx) /\ IsInteger(res.script) /\ IsInteger(res.mem))

\* What registerHit leaves in the store for an available amount a
TokenAfterHit(a) == IF RatLess(a, RatInt(1)) THEN a ELSE RatSub(a, RatInt(1))

\* registerHit of client c took store s0 to store s1 and returned r as the
\* refill algorithm prescribes
TokenHitFollowsAlgorithm(s0, s1, c, r) ==
    LET a == TokenAvailable(s0, c)
    IN  /\ r = Floor(RatSub(a, RatInt(1)))
        /\ r <= opts.limit - 1
        /\ Has(s1, getNTokensKey(c)) /\ Has(s1, getTsKey(c))
        /\ s1[getNTokensKey(c)].val = TokenAfterHit(a)
        /\ s1[getTsKey(c)].val = RatInt(now)

\* C14: token bucket registerHit follows the refill algorithm in both
\* variants: it returns floor(available - 1), never more than limit - 1,
\* and stores (available - 1, now) when available >= 1 and (available, now)
\* otherwise.
C14_TokenRefillAlgorithm ==
    (family = "token" /\ res.op = "registerHit") =>
        /\ TokenHitFollowsAlgorithm(before.kv["tx"], kv["tx"], res.c, res.tx)
        /\ TokenHitFollowsAlgorithm(before.kv["script"], kv["script"], res.c, res.script)

\* C15: token bucket getAvailableHits never exceeds limit, whatever the
\* stored token count and the time elapsed since the last update.
C15_TokenAvailableAtMostLimit ==
    (family = "token" /\ res.op = "getAvailableHits") =>
        /\ ~RatLess(RatInt(opts.limit), res.tx)
        /\ ~RatLess(RatInt(opts.limit), res.script)

\* C16: token bucket read/hit consistency.  In every reachable state and
\* for both variants, if getAvailableHits(c) returns a at this instant then
\* registerHit(c) at the same instant returns floor(a - 1).
C16_TokenReadHitConsistency ==
    family = "token" =>
        \A c \in Clients :
            /\ TokenTxRegisterHit(kv["tx"], c, now).ret
                    = Floor(RatSub(TokenGetAvailableHits(kv["tx"], c, now), RatInt(1)))
            /\ TokenScriptRegisterHit(kv["script"], c, now).ret
                    = Floor(RatSub(TokenGetAvailableHits(kv["script"], c, now), RatInt(1)))

\* C17: token bucket limited hits consume nothing and do not delay
\* admission.  In both variants, when a hit of c was limited at instant t
\* with available a < 1, then, whatever further limited hits c makes, a hit
\* at any instant t' >= t + (1 - a) * refillIntervalMs / refillRate is
\* admitted: a hit that is limited now comes before every such instant of
\* its run of limited hits.
C17_TokenLimitedHitsKeepRefill ==
    (family = "token" /\ res.op = "registerHit") =>
        /\ res.tx < 0 => RatLess(RatInt(now), admitBy["tx"][res.c])
        /\ res.script < 0 => RatLess(RatInt(now), admitBy["script"][res.c])

\* What getAvailableHits(c) returns at this instant on the stores and
\* windows x, in the shape of res
ReadResults(x, c) ==
    CASE family = "fixed" ->
            [op |-> "getAvailableHits", c |-> c,
             tx |-> FixedGetAvailableHits(x.kv["tx"], c, now),
             script |-> FixedGetAvailableHits(x.kv["script"], c, now),
             mem |-> FixedMemGetAvailableHits(x.fixedMem, c, now).ret]
      [] family = "sliding" ->
            [op |-> "getAvailableHits", c |-> c,
             tx |-> SlidingGetAvailableHits(x.kv["tx"], c, now),
             script |-> SlidingGetAvailableHits(x.kv["script"], c, now)]
      [] family = "floating" ->
            [op |-> "getAvailableHits", c |-> c,
             tx |-> FloatingGetAvailableHits(x.kv["tx"], c, now),
             script |-> FloatingGetAvailableHits(x.kv["script"], c, now),
             mem |-> Rat(FloatingMemGetAvailableHits(x.floatMem, c, now).ret, 1)]
      [] family = "token" ->
            [op |-> "getAvailableHits", c |-> c,
             tx |-> TokenGetAvailableHits(x.kv["tx"], c, now),
             script |-> TokenGetAvailableHits(x.kv["script"], c, now)]

\* What the in-memory registerHit(c) returns at instant t on the windows x
MemHitAt(x, c, t) ==
    <<FixedMemRegisterHit(x.fixedMem, c, t).ret, FloatingMemRegisterHit(x.floatMem, c, t).ret>>

\* C18: getAvailableHits is a pure read.  After a getAvailableHits call, in
\* every implementation: another read at the same instant returns the same
\* value; every stored hit count, log entry, token value and expiry of every
\* client is as before the call; and registerHit and getAvailableHits of any
\* client return what they would have returned without the call (the
\* in-memory registerHit also at every later instant).
C18_ReadIsPure ==
    res.op = "getAvailableHits" =>
        /\ ReadResults(Snapshot, res.c) = res
        /\ kv = before.kv /\ uuids = before.uuids
        /\ \A b \in Clients :
                /\ StoredFor(Snapshot, b) = StoredFor(before, b)
                /\ ResultsFor(Snapshot, b) = ResultsFor(before, b)
                /\ HasMem => \A t \in now..(MaxTime + opts.windowSizeMs) :
                                MemHitAt(Snapshot, b, t) = MemHitAt(before, b, t)

\* A read that found the in-memory windows out of date and rotated them,
\* for a client whose earlier hits still count
C18_Witness ==
    /\ family = "floating" /\ res.op = "getAvailableHits"
    /\ before.floatMem # floatMem
    /\ Len(hist[res.c]) >= 1
    /\ res.mem # Rat(opts.limit, 1)
    /\ storeSynced

\* C19: fixed window script/transaction equivalence.  For every sequential
\* run of registerHit, getAvailableHits and clock advances from the same empty
\* store, FixedWindowLimiter and FixedWindowLimiterNoLua return the same
\* result at every call, also after more than limit + 1 hits in one window.
C19_FixedScriptTxEquivalent ==
    (family = "fixed" /\ res.op # "none") => res.tx = res.script

\* The (tokens, updatedAt) pair the store s holds for client c
StoredPair(s, c) ==
    [tokens |-> IF Has(s, getNTokensKey(c)) THEN s[getNTokensKey(c)].val ELSE NoDeadline,
     updatedAt |-> IF Has(s, getTsKey(c)) THEN s[getTsKey(c)].val ELSE NoDeadline]

\* C20: token bucket script/transaction equivalence.  For every sequential
\* run of registerHit, getAvailableHits and clock advances from the same empty
\* store, TokenBucketLimiter and TokenBucketLimiterNoLua return the same
\* result at every call and hold the same stored (tokens, updatedAt) pair
\* for every client, also after a hit on a partly filled bucket whose refill
\* would overfill it and after a hit with zero elapsed time.
C20_TokenScriptTxEquivalent ==
    family = "token" =>
        /\ res.op # "none" => res.tx = res.script
        /\ \A c \in Clients : StoredPair(kv["tx"], c) = StoredPair(kv["script"], c)

\* C21: floating window script/transaction equivalence.  For every sequential
\* run of registerHit, getAvailableHits and clock advances, with any
\* previous-window count present in the store, FloatingWindowLimiter and
\* FloatingWindowLimiterNoLua return the same result at every call and leave
\* the same counters with the same expiries.
C21_FloatingScriptTxEquivalent ==
    family = "floating" =>
        /\ res.op # "none" => res.tx = res.script
        /\ kv["tx"] = kv["script"]

\* The log the store s holds for client c: how many entries carry each
\* timestamp, and the key's expiry
StoredLog(s, c) ==
    LET key == SlidingGetClientKey(c)
    IN  IF Has(s, key)
        THEN [present |-> TRUE,
              stamps |-> [t \in -1..(MaxTime + 1) |->
                             Cardinality({m \in s[key].val : m.score = t})],
              exp |-> s[key].exp]
        ELSE [present |-> FALSE, stamps |-> [t \in -1..(MaxTime + 1) |-> 0], exp |-> NoExpiry]

\* C22: sliding window script/transaction equivalence.  For every sequential
\* run of registerHit, getAvailableHits and clock advances from the same empty
\* store, SlidingWindowLimiter and SlidingWindowLimiterNoLua return the same
\* result at every call and leave logs with the same multiset of timestamps
\* and the same expiry for every client.
C22_SlidingScriptTxEquivalent ==
    family = "sliding" =>
        /\ res.op # "none" => res.tx = res.script
        /\ \A c \in Clients : StoredLog(kv["tx"], c) = StoredLog(kv["script"], c)

\* A limited hit made after older entries were trimmed from the log
C22_Witness ==
    /\ family = "sliding" /\ res.op = "registerHit" /\ res.script < 0
    /\ Has(kv["script"], SlidingGetClientKey(res.c))
    /\ Cardinality(kv["script"][SlidingGetClientKey(res.c)].val) < Len(hist[res.c])
    /\ Has(kv["tx"], SlidingGetClientKey(res.c))
    /\ kv["tx"][SlidingGetClientKey(res.c)].exp = now + opts.windowSizeMs

\* C23: the in-memory floating window is equivalent to the store-backed one.
\* On a store that expires keys at their PEXPIREAT instant, for every run of
\* registerHit, getAvailableHits and clock advances by any clients,
\* FloatingWindowInMemoryLimiter and FloatingWindowLimiterNoLua with the same
\* options return the same value at every call.
C23_FloatingMemEquivalent ==
    (family = "floating" /\ storeSynced /\ res.op # "none") =>
        IF res.op = "getAvailableHits"
        THEN res.mem.n * res.tx.d = res.tx.n * res.mem.d
        ELSE res.mem = res.tx

\* C24: the in-memory fixed window is equivalent to the store-backed one.  On
\* a store that expires keys at their PEXPIREAT instant, for every run of
\* registerHit, getAvailableHits and clock advances by any clients,
\* FixedWindowInMemoryLimiter and FixedWindowLimiterNoLua with the same
\* options return the same value at every call, also at a call made exactly
\* at a window's end instant.
C24_FixedMemEquivalent ==
    (family = "fixed" /\ storeSynced /\ res.op # "none") => res.mem = res.tx

\* A hit made exactly at the end instant of a window in which the same
\* client has hits
C24_Witness ==
    /\ family = "fixed" /\ storeSynced /\ res.op = "registerHit"
    /\ calcCurrentWindowStartTs(now) = now
    /\ HitsIn(res.c, now - opts.windowSizeMs, now - 1) >= 1
    /\ res.mem = opts.limit - 1
    /\ before.fixedMem.endTs = now

\* A call of the in-memory floating limiter that starts with a rotation check
RotatingCall == res.op \in {"registerHit", "getAvailableHits", "checkExpiration"}

\* The current window a rotating call at this instant leaves: empty, but for
\* the hit a registerHit has just counted
FreshCurrent ==
    LET w == RateLimiterWindow(calcCurrentWindowStartTs(now), opts.windowSizeMs)
    IN  IF res.op = "registerHit"
        THEN [w EXCEPT !.clientHitCounter = MapSet(@, res.c, 1)]
        ELSE w

\* Every hit of client c before its latest one is at least gap instants old
EarlierHitsOlderThan(c, gap) ==
    \A i \in 1..(Len(hist[c]) - 1) : hist[c][i] + gap <= now

\* C25: in-memory floating window rotation.  When a call arrives at instant
\* now and the held current window is expired: if now lies in the window
\* immediately following it, previous becomes the old current window with
\* all its per-client counts; otherwise previous becomes an empty window
\* starting at windowStart(now) - windowSize; in both cases current becomes
\* an empty window starting at windowStart(now).  Hence a registerHit made
\* at least two window sizes after the client's earlier hits returns
\* limit - 1.
C25_FloatingMemRotation ==
    (family = "floating" /\ RotatingCall) =>
        /\ isExpiredAt(before.floatMem.currentWindow, now) =>
              LET old == before.floatMem.currentWindow
              IN  /\ floatMem.currentWindow = FreshCurrent
                  /\ floatMem.previousWindow =
                        IF old.endTs <= now /\ now < old.endTs + opts.windowSizeMs
                        THEN old
                        ELSE RateLimiterWindow(calcCurrentWindowStartTs(now) - opts.windowSizeMs,
                                               opts.windowSizeMs)
        /\ (res.op = "registerHit" /\ EarlierHitsOlderThan(res.c, 2 * opts.windowSizeMs)) =>
              res.mem = opts.limit - 1

\* A client's registerHit two window sizes after its earlier hit, on windows
\* that still held that hit: previous is replaced by an empty window
C25_Witness ==
    /\ family = "floating" /\ res.op = "registerHit"
    /\ Len(hist[res.c]) >= 2
    /\ EarlierHitsOlderThan(res.c, 2 * opts.windowSizeMs)
    /\ MapGet(before.floatMem.currentWindow.clientHitCounter, res.c) >= 1
    /\ isExpiredAt(before.floatMem.currentWindow, now)
    /\ floatMem.previousWindow.clientHitCounter = RateLimiterWindow(0, 1).clientHitCounter
    /\ res.mem = opts.limit - 1

\* Window w holds no count and covers the instants [startTs, startTs + windowSize)
EmptyWindowAt(w, startTs) == w = RateLimiterWindow(startTs, opts.windowSizeMs)

\* C26: clear() discards all held state.  For both in-memory limiters, after
\* clear() at any instant and in any reachable state, getAvailableHits
\* returns limit and registerHit returns limit - 1 for every client, and the
\* held windows are aligned to the current instant: the current window
\* contains now and is empty, and the floating limiter's previous window is
\* the one immediately before it and is empty.
C26_ClearDiscardsState ==
    res.op = "clear" =>
        /\ family = "fixed" =>
              /\ \A c \in Clients :
                    /\ FixedMemGetAvailableHits(fixedMem, c, now).ret = opts.limit
                    /\ FixedMemRegisterHit(fixedMem, c, now).ret = opts.limit - 1
              /\ fixedMem.startTs <= now /\ now < fixedMem.startTs + opts.windowSizeMs
              /\ EmptyWindowAt(fixedMem, fixedMem.startTs)
        /\ family = "floating" =>
              /\ \A c \in Clients :
                    /\ FloatingMemGetAvailableHits(floatMem, c, now).ret = opts.limit
                    /\ FloatingMemRegisterHit(floatMem, c, now).ret = opts.limit - 1
              /\ floatMem.currentWindow.startTs <= now
              /\ now < floatMem.currentWindow.startTs + opts.windowSizeMs
              /\ EmptyWindowAt(floatMem.currentWindow, floatMem.currentWindow.startTs)
              /\ EmptyWindowAt(floatMem.previousWindow,
                               floatMem.currentWindow.startTs - opts.windowSizeMs)

\* clear() on floating windows that are out of date and hold counts of a
\* client in both the previous and the current window
C26_Witness ==
    /\ family = "floating" /\ res.op = "clear"
    /\ isExpiredAt(before.floatMem.currentWindow, now)
    /\ MapGet(before.floatMem.currentWindow.clientHitCounter, "") >= 1
    /\ MapGet(before.floatMem.previousWindow.clientHitCounter, "") >= 1
    /\ floatMem.currentWindow.startTs = calcCurrentWindowStartTs(now)

\* What every call of the in-memory limiters does at instant t on the held
\* windows x, for client c: the value returned and the windows left behind
MemCallsAt(x, c, t) ==
    IF family = "fixed"
    THEN <<FixedMemRegisterHit(x.fixedMem, c, t), FixedMemGetAvailableHits(x.fixedMem, c, t),
           FixedMemCheckWindowExpiration(x.fixedMem, t), FixedMemClear(t)>>
    ELSE <<FloatingMemRegisterHit(x.floatMem, c, t), FloatingMemGetAvailableHits(x.floatMem, c, t),
           FloatingMemCheckWindowExpiration(x.floatMem, t), FloatingMemClear(t)>>

\* C27: checkExpiration() registers no hit and is observationally neutral.
\* For both in-memory limiters, after a checkExpiration() call: no client's
\* count has changed; every call made at this or any later instant returns
\* the value, and leaves the windows, it would have without the
\* checkExpiration() (so no later returned value changes either); and a
\* second checkExpiration() at the same instant changes nothing.
C27_CheckExpirationNeutral ==
    res.op = "checkExpiration" =>
        /\ kv = before.kv
        /\ \A c \in Clients :
              /\ StoredFor(Snapshot, c) = StoredFor(before, c)
              /\ \A t \in now..(MaxTime + 2 * opts.windowSizeMs) :
                    MemCallsAt(Snapshot, c, t) = MemCallsAt(before, c, t)
        /\ family = "fixed" => FixedMemCheckWindowExpiration(fixedMem, now) = fixedMem
        /\ family = "floating" => FloatingMemCheckWindowExpiration(floatMem, now) = floatMem

\* A checkExpiration() that rotated the floating windows and kept a
\* client's hits in the previous window
C27_Witness ==
    /\ family = "floating" /\ res.op = "checkExpiration"
    /\ before.floatMem # floatMem
    /\ MapGet(floatMem.previousWindow.clientHitCounter, "") >= 1
    /\ FloatingMemGetAvailableHits(floatMem, "", now).ret < opts.limit

\* A reply is a numeric string: an optional sign and one or more digits
IsNumericString(reply) ==
    /\ reply.type = "string"
    /\ \/ AllDigits(reply.str)
       \/ Len(reply.str) >= 2 /\ reply.str[1] = "-" /\ AllDigits(Tail(reply.str))

\* The reply has the type the script variant of this family returns
ExpectedReply(reply) ==
    IF family = "token" THEN IsNumericString(reply) ELSE reply.type = "number"

\* C28: unexpected script results are errors, never an admission.  For each
\* of the four script variants, when the script run hands back a value that
\* is not a number (fixed, sliding, floating) or not a numeric string (token
\* bucket), registerHit throws; it returns nothing that a caller testing
\* remaining < 0 would take as allowed.
C28_UnexpectedReplyThrows ==
    (res.op = "scriptReply" /\ ~ExpectedReply(res.reply)) => res.outcome = Thrown

\* A given value the options may not hold: zero, negative or, for every
\* field but refillRate, not a whole number
Rejectable(f, v) ==
    \/ v.n = 0
    \/ v.n < 0
    \/ f # "refillRate" /\ v.n % v.d # 0

\* C29: configuration validation.  Constructing any limiter with an options
\* object in which a field of its options type among limit, windowSizeMs and
\* refillIntervalMs is zero, negative or non-integer, or refillRate is zero
\* or negative, throws a validation error and yields no instance; this holds
\* just as well when only some of the fields are given.
C29_InvalidOptionsRejected ==
    res.op = "construct" =>
        ((\E f \in SchemaFields : res.given[f].given /\ Rejectable(f, res.given[f].v))
            => res.outcome = "throw")

\* A token bucket constructed with nothing but refillRate = 0: rejected
C29_Witness ==
    /\ family = "token" /\ res.op = "construct"
    /\ res.given["refillRate"] = [given |-> TRUE, v |-> [n |-> 0, d |-> 1]]
    /\ ~res.given["limit"].given /\ ~res.given["refillIntervalMs"].given
    /\ res.outcome = "throw"

\* C30: the token bucket's transaction variant has the accepted race.  Two
\* concurrent registerHit calls of TokenBucketLimiterNoLua by the same client
\* that both read exactly one whole token and no refill, the second reading
\* before the first has updated the bucket, both return a value >= 0: both
\* are admitted on one token, and the bucket is left empty.
C30_TokenTxRace ==
    family = "token" =>
        \A p, q \in RaceProcs :
            (/\ p # q /\ pc[p] = "done" /\ pc[q] = "done"
             /\ call[p].c = call[q].c
             /\ call[p].currentLimit = RatInt(1) /\ call[q].currentLimit = RatInt(1)
             /\ call[p].refill = RatInt(0) /\ call[q].refill = RatInt(0))
            => (call[p].ret >= 0 /\ call[q].ret >= 0)

\* Two calls by one client at the same instant on a bucket of one token,
\* the only calls made: both are admitted, and the bucket holds no token
C30_Witness ==
    /\ family = "token" /\ opts.limit = 1
    /\ pc[1] = "done" /\ pc[2] = "done"
    /\ call[1].c = "" /\ call[2].c = ""
    /\ call[1].nowTs = call[2].nowTs
    /\ hist[""] = <<call[1].nowTs, call[2].nowTs>> /\ hist["1:"] = <<>>
    /\ call[1].ret >= 0 /\ call[2].ret >= 0
    /\ StoredPair(kv["tx"], "").tokens = RatInt(0)

C32_TokenStoredState ==
    family = "token" =>
        \A v \in Variants, c \in Clients :
            LET s == kv[v]
                tk == getNTokensKey(c)
                ts == getTsKey(c)
            IN  /\ Has(s, tk) <=> Has(s, ts)
                /\ Has(s, tk) =>
                      /\ ~RatLess(s[tk].val, RatInt(0))
                      /\ ~RatLess(RatInt(opts.limit), s[tk].val)
                      /\ s[tk].exp = s[ts].exp
                      /\ s[tk].exp # NoExpiry

\* After a limited hit both stores hold a fraction of a token for the client
C32_Witness ==
    /\ family = "token" /\ res.op = "registerHit" /\ res.tx < 0 /\ res.script < 0
    /\ \A v \in Variants :
          /\ Has(kv[v], getNTokensKey(res.c)) /\ Has(kv[v], getTsKey(res.c))
          /\ RatLess(RatInt(0), kv[v][getNTokensKey(res.c)].val)
          /\ RatLess(kv[v][getNTokensKey(res.c)].val, RatInt(1))

\* The counter key of client c for the window that starts at ws
CounterKey(c, ws) ==
    IF family = "fixed" THEN FixedKeyPrefix \o ":" \o ToString(ws) \o ":" \o c
    ELSE FloatingGetClientWindowKey(c, ws)

\* The window starts of the instants the clock can show
WindowStarts == {calcCurrentWindowStartTs(t) : t \in 0..MaxTime}

\* C33: window counter expiry invariant.  In every reachable store state of
\* the fixed and floating store-backed limiters (script and transaction
\* variants, hits of concurrent callers included), the store holds counter
\* keys only; every existing counter key for (client, window start ws)
\* carries the expiry ws + windowSize, none is without expiry, and none
\* exists when the store's clock shows ws + windowSize or later.
C33_CounterExpiry ==
    family \in {"fixed", "floating"} =>
        \A v \in Variants :
            /\ DOMAIN kv[v] \subseteq {CounterKey(c, ws) : c \in Clients, ws \in WindowStarts}
            /\ \A c \in Clients, ws \in WindowStarts :
                  Has(kv[v], CounterKey(c, ws)) =>
                      /\ kv[v][CounterKey(c, ws)].exp # NoExpiry
                      /\ kv[v][CounterKey(c, ws)].exp = ws + opts.windowSizeMs
                      /\ StoreNow < ws + opts.windowSizeMs
                      /\ kv[v][CounterKey(c, ws)].val >= 1

\* Both stores count two hits in the current window after a call that read
\* the clock in an earlier window has reached them
C33_Witness ==
    /\ family = "floating" /\ storeSynced
    /\ \E p \in Procs : pc[p] = "done" /\ call[p].nowTs < calcCurrentWindowStartTs(now)
    /\ \E c \in Clients : \A v \in Variants :
          /\ Has(kv[v], CounterKey(c, calcCurrentWindowStartTs(now)))
          /\ kv[v][CounterKey(c, calcCurrentWindowStartTs(now))].val >= 2

\* C34: sliding window log invariant.  For both variants, right after a
\* registerHit at instant now the client's log holds the new entry and no
\* entry with timestamp <= now - windowSize, and the log key expires at
\* now + windowSize; the count behind every result of registerHit and of
\* getAvailableHits takes in no hit made before now - windowSize.
C34_SlidingLog ==
    (family = "sliding" /\ res.op \in {"registerHit", "getAvailableHits"}) =>
        LET key == SlidingGetClientKey(res.c)
            recent == HitsIn(res.c, now - opts.windowSizeMs - 1, now)
        IN  \A v \in Variants :
                /\ res.op = "registerHit" =>
                      /\ Has(kv[v], key)
                      /\ \E m \in kv[v][key].val : m.score = now
                      /\ \A m \in kv[v][key].val : m.score > now - opts.windowSizeMs
                      /\ kv[v][key].exp = now + opts.windowSizeMs
                      /\ opts.limit - res[v] <= recent
                      /\ opts.limit - res[v] >= 1
                /\ res.op = "getAvailableHits" =>
                      res[v] >= Max(opts.limit - recent, 0)

\* A hit one window after an earlier hit of the same client: both stores
\* held the old entry before the call and hold only the new one after it
C34_Witness ==
    /\ family = "sliding" /\ res.op = "registerHit"
    /\ \A v \in Variants :
          /\ Has(before.kv[v], SlidingGetClientKey(res.c))
          /\ \E m \in before.kv[v][SlidingGetClientKey(res.c)].val :
                m.score = now - opts.windowSizeMs
          /\ Cardinality(kv[v][SlidingGetClientKey(res.c)].val) = 1

\* ceil(limit / refillRate * refillIntervalMs)
FullRefillMs == -((-(opts.limit * opts.refillIntervalMs)) \div opts.refillRate)

\* C35: token bucket expiry refresh.  On a store whose clock is the
\* limiter's, for both variants, every registerHit (limited or admitted) at
\* instant now leaves both bucket keys with the expiry
\* now + ceil(limit / refillRate * refillIntervalMs); when the client's
\* earlier hits are all at least that long ago, getAvailableHits returns
\* limit and registerHit returns limit - 1.
C35_TokenExpiryRefresh ==
    (family = "token" /\ storeSynced) =>
        /\ res.op = "registerHit" =>
              \A v \in Variants :
                  /\ Has(kv[v], getNTokensKey(res.c)) /\ Has(kv[v], getTsKey(res.c))
                  /\ kv[v][getNTokensKey(res.c)].exp = now + FullRefillMs
                  /\ kv[v][getTsKey(res.c)].exp = now + FullRefillMs
        /\ (res.op = "registerHit" /\ EarlierHitsOlderThan(res.c, FullRefillMs)) =>
              res.tx = opts.limit - 1 /\ res.script = opts.limit - 1
        /\ (res.op = "getAvailableHits"
              /\ \A i \in 1..Len(hist[res.c]) : hist[res.c][i] + FullRefillMs <= now) =>
              res.tx = RatInt(opts.limit) /\ res.script = RatInt(opts.limit)

\* The third hit of a client, made a whole refill time or more after its
\* second: the bucket is full again and the keys get their new expiry
C35_Witness ==
    /\ family = "token" /\ storeSynced /\ res.op = "registerHit"
    /\ Len(hist[res.c]) >= 3
    /\ hist[res.c][Len(hist[res.c]) - 1] + FullRefillMs <= now
    /\ res.tx = opts.limit - 1 /\ res.script = opts.limit - 1
    /\ \A v \in Variants : kv[v][getTsKey(res.c)].exp = now + FullRefillMs

\* C36: window start arithmetic.  For every instant now (instants before
\* startDate included), window size and start date, the computed window
\* start ws satisfies ws <= now < ws + windowSize and
\* (ws - startDate) mod windowSize = 0, the window start of now - windowSize
\* is ws - windowSize, and the fixed, floating and in-memory classes compute
\* the same value.
C36_WindowStart ==
    res.op = "calcWindowStartTs" =>
        /\ res.fixed <= now /\ now < res.fixed + opts.windowSizeMs
        /\ (res.fixed - opts.startDate) % opts.windowSizeMs = 0
        /\ res.earlier = res.fixed - opts.windowSizeMs
        /\ res.floating = res.fixed
        /\ res.fixedMem = res.fixed
        /\ res.floatingMem = res.fixed

\* An instant before the start date that is not on a window boundary: the
\* window start lies below the instant, further from the start date
C36_Witness ==
    /\ res.op = "calcWindowStartTs"
    /\ now < opts.startDate
    /\ res.fixed < now
    /\ opts.windowSizeMs > 1

\* The applyLimit calls started so far
Applied == {p \in Procs : pc[p] # "idle"}

\* C37: the two-call fixed window form has the read-then-increment race.
\* While no applyLimit call has started between the two round trips of
\* another, no counter exceeds limit; a counter exceeds limit by at most the
\* number of calls that did start so; and every call that reports 'not
\* limited' read a count below limit.  (The interleaving in which two calls
\* of one client read limit - 1, both report 'not limited' and leave the
\* counter at limit + 1 is the state C37_Witness.)
C37_ApplyLimitRace ==
    family = "fixed" =>
        /\ \A k \in DOMAIN kv["tx"] :
              kv["tx"][k].val <= opts.limit + Cardinality({p \in Applied : call[p].overlapped})
        /\ \A p \in Applied : ~call[p].limited => call[p].nRequests < opts.limit

\* Two calls of one client both read limit - 1 >= 1 in one window, both
\* report 'not limited', and the counter of that window stands at limit + 1
C37_Witness ==
    /\ family = "fixed" /\ opts.limit >= 2
    /\ \E p, q \in Procs :
          /\ p # q /\ pc[p] = "done" /\ pc[q] = "done"
          /\ call[p].c = call[q].c
          /\ call[p].nRequests = opts.limit - 1 /\ call[q].nRequests = opts.limit - 1
          /\ ~call[p].limited /\ ~call[q].limited
          /\ call[p].nowTs = now /\ call[q].nowTs = now
          /\ StoredCount(kv["tx"], FixedGetClientKey(call[p].c, now)) = opts.limit + 1

\* Window w has the configured size, starts a whole number of window sizes
\* from startDate and holds the instant ts
AlignedWindowAt(w, ts) ==
    /\ w.endTs = w.startTs + opts.windowSizeMs
    /\ (w.startTs - opts.startDate) % opts.windowSizeMs = 0
    /\ w.startTs <= ts /\ ts < w.endTs

\* C38: in-memory window invariant.  After construction and after every
\* registerHit, getAvailableHits, checkExpiration or clear call at instant
\* now, the fixed limiter holds a window aligned to startDate with
\* startTs <= now < endTs, and the floating limiter holds two windows with
\* current.startTs <= now < current.endTs and
\* previous.startTs + windowSize = current.startTs.
C38_MemWindows ==
    (now = 0 \/ res.op # "none") =>
        /\ family = "fixed" => AlignedWindowAt(fixedMem, now)
        /\ family = "floating" =>
              /\ AlignedWindowAt(floatMem.currentWindow, now)
              /\ floatMem.previousWindow.startTs + opts.windowSizeMs
                    = floatMem.currentWindow.startTs
              /\ floatMem.previousWindow.endTs = floatMem.currentWindow.startTs

\* A floating limiter's call after more than one window without calls: both
\* windows were replaced, and the windows held before did not hold now
C38_Witness ==
    /\ family = "floating" /\ res.op \in {"registerHit", "getAvailableHits", "checkExpiration"}
    /\ before.floatMem.currentWindow.endTs + opts.windowSizeMs <= now
    /\ floatMem.previousWindow.startTs > before.floatMem.currentWindow.startTs

\* The entries of client c's log in store s
LogOf(s, c) == IF Has(s, SlidingGetClientKey(c)) THEN s[SlidingGetClientKey(c)].val ELSE {}

\* The last n intervals between the hits of client c are all shorter than
\* windowSize / limit
HitsCloserThanRefill(c, n) ==
    /\ Len(hist[c]) > n
    /\ \A i \in (Len(hist[c]) - n)..(Len(hist[c]) - 1) :
          (hist[c][i + 1] - hist[c][i]) * opts.limit < opts.windowSizeMs

C40_ConstructedOptsValid ==
    (res.op = "construct" /\ res.outcome = "instance") =>
        \A f \in SchemaFields :
            /\ res.opts[f] # Undefined
            /\ res.opts[f] # Undefined => FieldPasses(f, res.opts[f])
            /\ res.opts[f] = IF res.given[f].given /\ res.given[f].v # Undefined
                             THEN res.given[f].v ELSE DefaultOpts[f]

====
